---- MODULE Spec2Model ----
(***************************************************************************)
(* A model of the MaxPyLang command line interface (maxpylang/cli):        *)
(*   - the command pipeline (_run_command, main) and the report builder    *)
(*     (emit_success, emit_error);                                         *)
(*   - the selector / endpoint / edge resolver (resolve.py);               *)
(*   - the connect and delete commands (main.py);                          *)
(*   - the helper identifier remapper (export_amxd.py).                    *)
(* Python strings on which the code computes (selectors, endpoints, edge   *)
(* texts, box identifiers, command names) are sequences of one-character   *)
(* strings, so that strip, split, rsplit, startswith, int() and the        *)
(* f-string formatting are computed as the code computes them.             *)
(***************************************************************************)
EXTENDS Integers, Sequences, FiniteSets, TLC

VARIABLES
    \* ---- command pipeline (main.py _run_command / main, output.py) ----
    json_output,   \* CLIContext.json_output
    command,       \* command_name handed to _run_command
    pc,            \* position of the invocation in main / _run_command
    raised,        \* the exception in flight: [cls, msg, at], cls = "none" if none
    payload,       \* the dict returned by the action
    captured,      \* raw lines the action wrote to the redirected stdout
    diagnostics,   \* the local list `diagnostics` of _run_command
    exc_diag,      \* the _cli_diagnostics attribute of the exception in flight
    sys_exit,      \* the code of the SystemExit in flight (NotExited if none)
    stdout,        \* the reports written to the output channel, in order
    stderr,        \* what click's exc.show() wrote to the error channel
    exit_status,   \* the status main returns (NotExited while running)
    \* ---- resolver (resolve.py) ----
    patch,         \* patch.objs as an ordered mapping, patch lines, saved file
    call,          \* the resolver call made: [fn, text]
    result,        \* what that call returned or raised
    \* ---- connect / delete command (main.py) ----
    cmd,           \* the command's arguments and loop position
    \* ---- helper identifier remapper (export_amxd.py) ----
    remap,         \* boxes, helper_boxes and the produced id_map
    \* ---- export and validation (export_amxd.py) ----
    export,        \* one export_amxd_file call: arguments, files, clock
    app,           \* one resolve_max_app_path call: candidates and result
    \* ---- main (main.py) ----
    argv           \* the arguments main was started with

vars == <<json_output, command, pc, raised, payload, captured, diagnostics,
          exc_diag, sys_exit, stdout, stderr, exit_status,
          patch, call, result, cmd, remap, export, app, argv>>

pipelineVars == <<json_output, command, pc, raised, payload, captured,
                  diagnostics, exc_diag, sys_exit, stdout, stderr,
                  exit_status>>
resolverVars == <<patch, call, result>>
commandVars  == <<cmd>>
remapVars    == <<remap>>
exportVars   == <<export, app>>
mainVars     == <<argv>>

\* Python's None, and the marker of a key a dict does not hold; NoneText and
\* AbsentText are the same two for the values that are texts.
None       == "None"
Absent     == "<absent>"
NoneText   == <<"None">>
AbsentText == <<"<absent>">>

\* exit_status and sys_exit while the process has not terminated.
NotExited == 0 - 1

\* The value of a component's variables in the specifications that do not run it.
Idle == "idle"

----------------------------------------------------------------------------
(* Strings as sequences of characters.                                     *)

Whitespace == {" "}
Digits == {"0", "1", "2", "3", "4", "5", "6", "7", "8", "9"}

DigitValue(c) ==
    CASE c = "0" -> 0 [] c = "1" -> 1 [] c = "2" -> 2 [] c = "3" -> 3
      [] c = "4" -> 4 [] c = "5" -> 5 [] c = "6" -> 6 [] c = "7" -> 7
      [] c = "8" -> 8 [] c = "9" -> 9

DigitChar(d) ==
    CASE d = 0 -> "0" [] d = 1 -> "1" [] d = 2 -> "2" [] d = 3 -> "3"
      [] d = 4 -> "4" [] d = 5 -> "5" [] d = 6 -> "6" [] d = 7 -> "7"
      [] d = 8 -> "8" [] d = 9 -> "9"

\* s[a..b], empty when a > b.
Slice(s, a, b) == IF a > b THEN <<>> ELSE SubSeq(s, a, b)

\* str.strip(): leading and trailing whitespace removed.
RECURSIVE LStrip(_)
LStrip(s) ==
    IF s # <<>> /\ Head(s) \in Whitespace THEN LStrip(Tail(s)) ELSE s

RECURSIVE RStrip(_)
RStrip(s) ==
    IF s # <<>> /\ s[Len(s)] \in Whitespace
    THEN RStrip(Slice(s, 1, Len(s) - 1))
    ELSE s

Strip(s) == RStrip(LStrip(s))

\* str.startswith(p)
StartsWith(s, p) == Len(s) >= Len(p) /\ Slice(s, 1, Len(p)) = p

\* The positions at which the text t occurs in s.
Occurrences(s, t) ==
    {i \in 1..(Len(s) - Len(t) + 1) : Slice(s, i, i + Len(t) - 1) = t}

\* `t in s`
Contains(s, t) == Occurrences(s, t) # {}

SetMin(S) == CHOOSE x \in S : \A y \in S : x <= y
SetMax(S) == CHOOSE x \in S : \A y \in S : x >= y

\* s.split(t, 1) where t occurs in s: the text before the first occurrence
\* and the text after it.
SplitFirst(s, t) ==
    LET i == SetMin(Occurrences(s, t))
    IN  <<Slice(s, 1, i - 1), Slice(s, i + Len(t), Len(s))>>

\* s.rsplit(t, 1) where t occurs in s: split at the last occurrence.
SplitLast(s, t) ==
    LET i == SetMax(Occurrences(s, t))
    IN  <<Slice(s, 1, i - 1), Slice(s, i + Len(t), Len(s))>>

\* The decimal value of a non-empty run of digits.
RECURSIVE DigitsValue(_)
DigitsValue(s) ==
    IF s = <<>> THEN 0
    ELSE 10 * DigitsValue(Slice(s, 1, Len(s) - 1)) + DigitValue(s[Len(s)])

AllDigits(s) == s # <<>> /\ \A i \in 1..Len(s) : s[i] \in Digits

\* int(text): surrounding whitespace is ignored, then an optional sign and a
\* non-empty run of digits.  (Over the characters the model uses; Python also
\* accepts single underscores between digits.)
IntBody(s) ==
    LET t == Strip(s)
    IN  IF t # <<>> /\ Head(t) \in {"-", "+"} THEN Tail(t) ELSE t

IntParses(s) == AllDigits(IntBody(s))

IntValue(s) ==
    LET t == Strip(s)
    IN  IF Head(t) = "-" THEN 0 - DigitsValue(IntBody(s))
        ELSE DigitsValue(IntBody(s))

\* str(n) for n >= 0, as the f-string f"obj-{n}" formats it.
RECURSIVE IntToStr(_)
IntToStr(n) ==
    IF n < 10 THEN <<DigitChar(n)>>
    ELSE IntToStr(n \div 10) \o <<DigitChar(n % 10)>>

\* _normalize_diagnostics: the lines of the raw output, each stripped, the
\* empty ones dropped.  (raw is the output already split into lines.)
RECURSIVE NormalizeDiagnostics(_)
NormalizeDiagnostics(raw) ==
    IF raw = <<>> THEN <<>>
    ELSE IF Strip(Head(raw)) # <<>>
         THEN <<Strip(Head(raw))>> \o NormalizeDiagnostics(Tail(raw))
         ELSE NormalizeDiagnostics(Tail(raw))

\* s.replace(a, b) for one-character a and b.
ReplaceChar(s, a, b) == [i \in 1..Len(s) |-> IF s[i] = a THEN b ELSE s[i]]

\* All sequences over S of length at most n.
SeqsUpTo(S, n) == UNION {[1..k -> S] : k \in 0..n}

----------------------------------------------------------------------------
(* Error taxonomy (errors.py) and the exception classes the pipeline       *)
(* tells apart.                                                            *)

\* The base class of each exception class: the taxonomy of errors.py, the
\* built-in classes the handlers of _run_command name (with one built-in
\* subclass of each handler's family and of none), and click's.
ExcParent(c) ==
    CASE c \in {"UsageError", "ObjectResolutionError", "ValidationError",
                "InternalError"} -> "MaxPyCLIError"
      [] c \in {"FileNotFoundError", "IsADirectoryError", "PermissionError"}
             -> "OSError"
      [] c \in {"KeyError", "IndexError"} -> "LookupError"
      [] c = "JSONDecodeError" -> "ValueError"
      [] c = "ClickUsageError" -> "ClickException"
      [] c \in {"MaxPyCLIError", "OSError", "LookupError", "AssertionError",
                "ValueError", "TypeError", "ClickException", "RuntimeError"}
             -> "Exception"
      [] OTHER -> "BaseException"

\* isinstance(exception of class c, b)
RECURSIVE IsInstance(_, _)
IsInstance(c, b) ==
    IF c = b THEN TRUE
    ELSE IF c = "BaseException" THEN FALSE
    ELSE IsInstance(ExcParent(c), b)

\* The classes an action can raise.
RaisableClasses ==
    {"MaxPyCLIError", "UsageError", "ObjectResolutionError", "ValidationError",
     "InternalError", "FileNotFoundError", "IsADirectoryError",
     "PermissionError", "KeyError", "IndexError", "AssertionError",
     "ValueError", "JSONDecodeError", "TypeError", "ClickException",
     "ClickUsageError", "RuntimeError"}

\* The class attribute exit_code (errors.py; click's exceptions carry their own:
\* ClickException 1, click.UsageError 2).
ExitCodeOf(c) ==
    CASE c = "UsageError" -> 2
      [] c = "ObjectResolutionError" -> 3
      [] c = "ValidationError" -> 4
      [] c = "InternalError" -> 5
      [] c = "MaxPyCLIError" -> 5
      [] c = "ClickUsageError" -> 2
      [] c = "ClickException" -> 1

----------------------------------------------------------------------------
(* Report builder (output.py).                                             *)

CmdNew == <<"n", "e", "w">>
CmdListObjects ==
    <<"l", "i", "s", "t", "-", "o", "b", "j", "e", "c", "t", "s">>
CmdConfigSet == <<"c", "o", "n", "f", "i", "g", " ", "s", "e", "t">>
Commands == {CmdNew, CmdListObjects, CmdConfigSet}

\* A variant of _schema_key that leaves the hyphens.
SchemaKey_HyphensKept(cmdname, kind) ==
    <<"maxpylang.cli.">>
      \o ReplaceChar(Strip(cmdname), " ", "_")
      \o <<".", kind, ".v1">>

\* _schema_key(command, kind)
SchemaKey(cmdname, kind) ==
    <<"maxpylang.cli.">>
      \o ReplaceChar(ReplaceChar(Strip(cmdname), " ", "_"), "-", "_")
      \o <<".", kind, ".v1">>

\* dict.get(key, default) on a value that is Absent when the key is missing.
GetOr(v, absent, default) == IF v = absent THEN default ELSE v

\* The `output` dict emit_success builds and echoes.
SuccessEnvelope(cmdname, pl) ==
    [ok          |-> TRUE,
     command     |-> cmdname,
     schema      |-> SchemaKey(cmdname, "success"),
     data_schema |-> GetOr(pl.data_schema, AbsentText, SchemaKey(cmdname, "data")),
     message     |-> GetOr(pl.message, Absent, "completed"),
     warnings    |-> pl.warnings,
     data        |-> GetOr(pl.data, Absent, None),
     diagnostics |-> pl.diagnostics,
     errors      |-> <<>>]

\* The `output` dict emit_error builds and echoes for an error of class cls
\* with str(error) = msg and the attribute _cli_diagnostics = diag.
ErrorEnvelope(cmdname, cls, msg, diag, exit_code) ==
    [ok          |-> FALSE,
     command     |-> cmdname,
     schema      |-> SchemaKey(cmdname, "error"),
     data_schema |-> NoneText,
     message     |-> msg,
     warnings    |-> <<>>,
     data        |-> None,
     diagnostics |-> diag,
     errors      |-> <<[type |-> cls, message |-> msg, exit_code |-> exit_code]>>]

----------------------------------------------------------------------------
(* Command pipeline (main.py: _run_command, main).                         *)

\* The longest side-channel output of an action, in lines.
MaxLines == 2

\* The raw lines an action may write: empty, blank, plain, padded.
RawLines == {<<>>, <<" ">>, <<"x">>, <<" ", "y", " ">>}

Messages == {"m1", "m2"}

NoException == [cls |-> "none", msg |-> "", at |-> "none"]

\* A value json.dumps cannot serialize (a Path, an object).
Unserializable == "<object>"

EmptyPayload ==
    [message |-> Absent, data |-> Absent, data_schema |-> AbsentText,
     warnings |-> <<>>, diagnostics |-> <<>>]

\* The dicts the actions of main.py return: nothing, a full payload with its
\* data schema spelled out, the payload of _finalize_mutation called without
\* data (data None, the data schema spelled out) on a patch with a health
\* warning, and a payload whose data is not serializable.
Payloads(cmdname) ==
    {EmptyPayload,
     [message |-> "done", data |-> "d", data_schema |-> SchemaKey(cmdname, "data"),
      warnings |-> <<>>, diagnostics |-> <<>>],
     [message |-> "done", data |-> None, data_schema |-> SchemaKey(cmdname, "data"),
      warnings |-> << <<"1 unknown object(s)">> >>, diagnostics |-> <<>>],
     [message |-> "done", data |-> Unserializable,
      data_schema |-> SchemaKey(cmdname, "data"),
      warnings |-> <<>>, diagnostics |-> <<>>]}

\* Classify with KeyError left out of the third except clause.
Classify_KeyErrorUnnamed(c) ==
    IF IsInstance(c, "MaxPyCLIError") THEN "taxonomy"
    ELSE IF IsInstance(c, "FileNotFoundError") \/ IsInstance(c, "IsADirectoryError")
         THEN "not_found"
    ELSE IF IsInstance(c, "AssertionError") \/ IsInstance(c, "ValueError")
            \/ IsInstance(c, "TypeError")
         THEN "shape"
    ELSE IF IsInstance(c, "ClickException") THEN "click"
    ELSE "other"

\* Which except clause of _run_command takes an exception of class c: the
\* first, in the order they are written, whose classes c is an instance of.
Classify(c) ==
    IF IsInstance(c, "MaxPyCLIError") THEN "taxonomy"
    ELSE IF IsInstance(c, "FileNotFoundError") \/ IsInstance(c, "IsADirectoryError")
         THEN "not_found"
    ELSE IF IsInstance(c, "AssertionError") \/ IsInstance(c, "ValueError")
            \/ IsInstance(c, "TypeError") \/ IsInstance(c, "KeyError")
         THEN "shape"
    ELSE IF IsInstance(c, "ClickException") THEN "click"
    ELSE "other"

PipelineInit ==
    /\ json_output \in BOOLEAN
    /\ command \in Commands
    /\ pc = "start"
    /\ raised = NoException
    /\ payload = EmptyPayload
    /\ captured = <<>>
    /\ diagnostics = <<>>
    /\ exc_diag = <<>>
    /\ sys_exit = NotExited
    /\ stdout = <<>>
    /\ stderr = <<>>
    /\ exit_status = NotExited

PipelineIdle ==
    /\ json_output = FALSE
    /\ command = <<>>
    /\ pc = Idle
    /\ raised = NoException
    /\ payload = EmptyPayload
    /\ captured = <<>>
    /\ diagnostics = <<>>
    /\ exc_diag = <<>>
    /\ sys_exit = NotExited
    /\ stdout = <<>>
    /\ stderr = <<>>
    /\ exit_status = NotExited

\* cli.main parses the arguments; a missing option or an unknown command
\* raises click.UsageError before any command runs (main.py 907).
ParseArgsFail ==
    /\ pc = "start"
    /\ \E msg \in Messages :
         raised' = [cls |-> "ClickUsageError", msg |-> msg, at |-> "parse"]
    /\ pc' = "main_except"
    /\ UNCHANGED <<json_output, command, payload, captured, diagnostics,
                   exc_diag, sys_exit, stdout, stderr, exit_status>>
    /\ UNCHANGED <<resolverVars, commandVars, remapVars, exportVars, mainVars>>

\* _run_command 84-95: the action runs, under redirect_stdout in structured
\* mode; it returns a payload or raises, and what it wrote is normalized into
\* `diagnostics` (on return) or attached to the exception (on raise).
RunAction ==
    /\ pc = "start"
    /\ \E cls \in {"none"} \cup RaisableClasses, msg \in Messages,
          pl \in Payloads(command), cap \in SeqsUpTo(RawLines, MaxLines) :
         /\ ~json_output => cap = <<>>
         /\ cls = "none" => msg = "m1"
         /\ cls # "none" => pl = EmptyPayload
         /\ captured' = cap
         /\ payload' = pl
         /\ IF cls = "none"
            THEN /\ raised' = NoException
                 /\ diagnostics' = NormalizeDiagnostics(cap)
                 /\ exc_diag' = <<>>
                 /\ pc' = "returned"
            ELSE /\ raised' = [cls |-> cls, msg |-> msg, at |-> "action"]
                 /\ diagnostics' = <<>>
                 /\ exc_diag' = NormalizeDiagnostics(cap)
                 /\ pc' = "caught"
    /\ UNCHANGED <<json_output, command, sys_exit, stdout, stderr, exit_status>>
    /\ UNCHANGED <<resolverVars, commandVars, remapVars, exportVars, mainVars>>

\* f"{len(diagnostics)} internal diagnostic line(s) captured"
DiagnosticsSummary(diag) ==
    IntToStr(Len(diag)) \o <<" internal diagnostic line(s) captured">>

Range(s) == {s[i] : i \in 1..Len(s)}

\* A variant of MergeDiagnostics that adds the summary even when it is there.
MergeDiagnostics_AlwaysAppend(pl, diag) ==
    [pl EXCEPT !.diagnostics = @ \o diag,
               !.warnings = Append(@, DiagnosticsSummary(diag))]

\* _run_command 97-103: the captured diagnostics are merged into the payload.
MergeDiagnostics(pl, diag) ==
    IF diag = <<>> THEN pl
    ELSE [pl EXCEPT !.diagnostics = @ \o diag,
                    !.warnings = IF DiagnosticsSummary(diag) \in Range(@)
                                 THEN @
                                 ELSE Append(@, DiagnosticsSummary(diag))]

\* _run_command 97-104 with emit_success: the report is echoed; in structured
\* mode json.dumps raises TypeError, before anything is echoed, on a payload
\* it cannot serialize, and the handlers below take that exception.
EmitSuccess ==
    /\ pc = "returned"
    /\ payload' = MergeDiagnostics(payload, diagnostics)
    /\ IF json_output /\ payload.data = Unserializable
       THEN /\ raised' = [cls |-> "TypeError", msg |-> "m1", at |-> "emit"]
            /\ pc' = "caught"
            /\ stdout' = stdout
       ELSE /\ stdout' = Append(stdout, SuccessEnvelope(command, payload'))
            /\ pc' = "returning"
            /\ raised' = raised
    /\ UNCHANGED <<json_output, command, captured, diagnostics, exc_diag,
                   sys_exit, stderr, exit_status>>
    /\ UNCHANGED <<resolverVars, commandVars, remapVars, exportVars, mainVars>>

\* _run_command returns, cli.main returns and main returns 0 (main.py 907-908).
ReturnZero ==
    /\ pc = "returning"
    /\ exit_status' = 0
    /\ pc' = "done"
    /\ UNCHANGED <<json_output, command, raised, payload, captured, diagnostics,
                   exc_diag, sys_exit, stdout, stderr>>
    /\ UNCHANGED <<resolverVars, commandVars, remapVars, exportVars, mainVars>>

\* HandleTaxonomy without the call of emit_error.
HandleTaxonomy_Unreported ==
    /\ pc = "caught"
    /\ Classify(raised.cls) = "taxonomy"
    /\ sys_exit' = ExitCodeOf(raised.cls)
    /\ pc' = "exiting"
    /\ UNCHANGED <<json_output, command, raised, payload, captured, diagnostics,
                   exc_diag, stdout, stderr, exit_status>>
    /\ UNCHANGED <<resolverVars, commandVars, remapVars, exportVars, mainVars>>

\* _run_command 105-108: a taxonomy error is reported as it is, with the local
\* diagnostics attached when it carries none.
HandleTaxonomy ==
    /\ pc = "caught"
    /\ Classify(raised.cls) = "taxonomy"
    /\ exc_diag' = IF exc_diag = <<>> THEN diagnostics ELSE exc_diag
    /\ stdout' = Append(stdout, ErrorEnvelope(command, raised.cls, raised.msg,
                                              exc_diag', ExitCodeOf(raised.cls)))
    /\ sys_exit' = ExitCodeOf(raised.cls)
    /\ pc' = "exiting"
    /\ UNCHANGED <<json_output, command, raised, payload, captured, diagnostics,
                   stderr, exit_status>>
    /\ UNCHANGED <<resolverVars, commandVars, remapVars, exportVars, mainVars>>

\* WrapAndReport ending in `raise SystemExit(1)`.
WrapAndReport_ExitOne(wrapcls) ==
    /\ stdout' = Append(stdout,
                        ErrorEnvelope(command, wrapcls, raised.msg,
                                      IF exc_diag # <<>> THEN exc_diag ELSE diagnostics,
                                      ExitCodeOf(wrapcls)))
    /\ sys_exit' = 1
    /\ pc' = "exiting"
    /\ UNCHANGED <<json_output, command, raised, payload, captured, diagnostics,
                   exc_diag, stderr, exit_status>>
    /\ UNCHANGED <<resolverVars, commandVars, remapVars, exportVars, mainVars>>

\* The body shared by the three wrapping handlers of _run_command (111-114,
\* 116-119, 123-126): wrapped = <cls>(str(exc)), the diagnostics of the
\* exception or else the local ones attached, emit_error, SystemExit.
WrapAndReport(wrapcls) ==
    /\ stdout' = Append(stdout,
                        ErrorEnvelope(command, wrapcls, raised.msg,
                                      IF exc_diag # <<>> THEN exc_diag ELSE diagnostics,
                                      ExitCodeOf(wrapcls)))
    /\ sys_exit' = ExitCodeOf(wrapcls)
    /\ pc' = "exiting"
    /\ UNCHANGED <<json_output, command, raised, payload, captured, diagnostics,
                   exc_diag, stderr, exit_status>>
    /\ UNCHANGED <<resolverVars, commandVars, remapVars, exportVars, mainVars>>

\* _run_command 110-114
HandleNotFound ==
    /\ pc = "caught"
    /\ Classify(raised.cls) = "not_found"
    /\ WrapAndReport("UsageError")

\* _run_command 115-119
HandleShape ==
    /\ pc = "caught"
    /\ Classify(raised.cls) = "shape"
    /\ WrapAndReport("ValidationError")

\* _run_command 120-121: a click exception is re-raised, unreported, to main.
HandleClick ==
    /\ pc = "caught"
    /\ Classify(raised.cls) = "click"
    /\ pc' = "main_except"
    /\ UNCHANGED <<json_output, command, raised, payload, captured, diagnostics,
                   exc_diag, sys_exit, stdout, stderr, exit_status>>
    /\ UNCHANGED <<resolverVars, commandVars, remapVars, exportVars, mainVars>>

\* _run_command 122-126
HandleOther ==
    /\ pc = "caught"
    /\ Classify(raised.cls) = "other"
    /\ WrapAndReport("InternalError")

\* main 913-919: a click exception reaches main, which reports it as a
\* UsageError under click's exit code in structured mode and lets click show
\* it on the error channel otherwise, then returns click's exit code.  (The
\* command main infers from the arguments is the command that ran.)
MainClickException ==
    /\ pc = "main_except"
    /\ IF json_output
       THEN /\ stdout' = Append(stdout,
                                ErrorEnvelope(command, "UsageError", raised.msg,
                                              <<>>, ExitCodeOf(raised.cls)))
            /\ stderr' = stderr
       ELSE /\ stderr' = Append(stderr, raised.msg)
            /\ stdout' = stdout
    /\ sys_exit' = ExitCodeOf(raised.cls)
    /\ pc' = "exiting"
    /\ UNCHANGED <<json_output, command, raised, payload, captured, diagnostics,
                   exc_diag, exit_status>>
    /\ UNCHANGED <<resolverVars, commandVars, remapVars, exportVars, mainVars>>

\* main 909-912 and 919: main returns the code (of the SystemExit it caught,
\* or of the click exception) and the process ends with it.
Terminate ==
    /\ pc = "exiting"
    /\ exit_status' = sys_exit
    /\ pc' = "done"
    /\ UNCHANGED <<json_output, command, raised, payload, captured, diagnostics,
                   exc_diag, sys_exit, stdout, stderr>>
    /\ UNCHANGED <<resolverVars, commandVars, remapVars, exportVars, mainVars>>

----------------------------------------------------------------------------
(* Selector and edge resolver (resolve.py).                                *)

Colon    == <<":">>
Arrow    == <<"-", ">">>
ObjDash  == <<"o", "b", "j", "-">>
AtAlias  == <<"@", "a", "l", "i", "a", "s", ":">>

\* What a resolver function returns (ok) or raises (error: the class of the
\* exception; why: which raise statement; text: the text its message names).
Returned(fields) == [ok |-> TRUE, error |-> "none", why |-> "none", val |-> fields]
Raised(cls, why, named) == [ok |-> FALSE, error |-> cls, why |-> why, val |-> named]

\* A patch object as the resolver reads it: its key in patch.objs, the
\* varname of its box (NoneText when it has none), and its outlet and inlet
\* lists.  A port is named by its owner, direction and position.
Ports(label, dir, n) ==
    [k \in 1..n |-> [owner |-> label, dir |-> dir, index |-> k - 1]]

Object(label, varname, nouts, nins) ==
    [label |-> label, varname |-> varname,
     outs |-> Ports(label, "out", nouts), ins |-> Ports(label, "in", nins)]

\* `selector in patch.objs`
HasKey(objs, key) == \E i \in 1..Len(objs) : objs[i].label = key

\* patch.objs[key]
Lookup(objs, key) == objs[CHOOSE i \in 1..Len(objs) : objs[i].label = key]

\* AliasMatches leaving the scan at the first match.
RECURSIVE AliasMatches_FirstOnly(_, _)
AliasMatches_FirstOnly(objs, alias) ==
    IF objs = <<>> THEN <<>>
    ELSE IF Head(objs).varname = alias
         THEN <<Head(objs)>>
         ELSE AliasMatches_FirstOnly(Tail(objs), alias)

\* The (label, obj) pairs whose varname equals alias, in the iteration order
\* of patch.objs (resolve_selector 35-39).
RECURSIVE AliasMatches(_, _)
AliasMatches(objs, alias) ==
    IF objs = <<>> THEN <<>>
    ELSE IF Head(objs).varname = alias
         THEN <<Head(objs)>> \o AliasMatches(Tail(objs), alias)
         ELSE AliasMatches(Tail(objs), alias)

\* The alias resolve_selector derives from the stripped selector (24-30):
\* the text after "@alias:", the selector itself when it does not start with
\* "obj-", and None otherwise.
DerivedAlias(selector) ==
    IF StartsWith(selector, AtAlias)
    THEN Strip(SplitFirst(selector, Colon)[2])
    ELSE IF ~StartsWith(selector, ObjDash) THEN selector
    ELSE NoneText

Labels(matches) == [i \in 1..Len(matches) |-> matches[i].label]

\* ResolveSelector with the alias scan made before the identifier lookup.
ResolveSelector_AliasFirst(objs, selector) ==
    LET sel == Strip(selector)
        alias == DerivedAlias(sel)
        matches == AliasMatches(objs, alias)
    IN  IF sel = <<>>
        THEN Raised("UsageError", "selector cannot be empty", <<>>)
        ELSE IF Len(matches) = 1
        THEN Returned([label |-> matches[1].label, obj |-> matches[1]])
        ELSE IF HasKey(objs, sel)
        THEN Returned([label |-> sel, obj |-> Lookup(objs, sel)])
        ELSE IF StartsWith(sel, AtAlias) /\ alias = <<>>
        THEN Raised("UsageError", "alias selector must be formatted", <<>>)
        ELSE IF alias = NoneText
        THEN Raised("ObjectResolutionError", "object not found", <<sel>>)
        ELSE IF matches = <<>>
        THEN Raised("ObjectResolutionError", "alias not found", <<alias>>)
        ELSE Raised("ObjectResolutionError", "ambiguous",
                    <<alias>> \o Labels(matches))

\* resolve_selector(patch, selector)
ResolveSelector(objs, selector) ==
    LET sel == Strip(selector)
        alias == DerivedAlias(sel)
        matches == AliasMatches(objs, alias)
    IN  IF sel = <<>>
        THEN Raised("UsageError", "selector cannot be empty", <<>>)
        ELSE IF HasKey(objs, sel)
        THEN Returned([label |-> sel, obj |-> Lookup(objs, sel)])
        ELSE IF StartsWith(sel, AtAlias) /\ alias = <<>>
        THEN Raised("UsageError", "alias selector must be formatted", <<>>)
        ELSE IF alias = NoneText
        THEN Raised("ObjectResolutionError", "object not found", <<sel>>)
        ELSE IF matches = <<>>
        THEN Raised("ObjectResolutionError", "alias not found", <<alias>>)
        ELSE IF Len(matches) > 1
        THEN Raised("ObjectResolutionError", "ambiguous",
                    <<alias>> \o Labels(matches))
        ELSE Returned([label |-> matches[1].label, obj |-> matches[1]])

\* ParseEndpoint splitting at the first colon (split instead of rsplit).
ParseEndpoint_FirstColon(endpoint) ==
    IF ~Contains(endpoint, Colon)
    THEN Raised("UsageError", "must be formatted", <<endpoint>>)
    ELSE
      LET parts == SplitFirst(endpoint, Colon)
          selector == Strip(parts[1])
          raw_index == Strip(parts[2])
      IN  IF selector = <<>>
          THEN Raised("UsageError", "empty selector", <<endpoint>>)
          ELSE IF ~IntParses(raw_index)
          THEN Raised("UsageError", "index must be an integer", <<endpoint>>)
          ELSE IF IntValue(raw_index) < 0
          THEN Raised("UsageError", "index must be >= 0", <<endpoint>>)
          ELSE Returned([selector |-> selector, index |-> IntValue(raw_index)])

\* parse_endpoint(endpoint)
ParseEndpoint(endpoint) ==
    IF ~Contains(endpoint, Colon)
    THEN Raised("UsageError", "must be formatted", <<endpoint>>)
    ELSE
      LET parts == SplitLast(endpoint, Colon)
          selector == Strip(parts[1])
          raw_index == Strip(parts[2])
      IN  IF selector = <<>>
          THEN Raised("UsageError", "empty selector", <<endpoint>>)
          ELSE IF ~IntParses(raw_index)
          THEN Raised("UsageError", "index must be an integer", <<endpoint>>)
          ELSE IF IntValue(raw_index) < 0
          THEN Raised("UsageError", "index must be >= 0", <<endpoint>>)
          ELSE Returned([selector |-> selector, index |-> IntValue(raw_index)])

\* ParseEdge splitting at the last arrow (rsplit instead of split).
ParseEdge_LastArrow(edge) ==
    IF ~Contains(edge, Arrow)
    THEN Raised("UsageError", "must be formatted", <<edge>>)
    ELSE
      LET parts == SplitLast(edge, Arrow)
          src == ParseEndpoint(parts[1])
          dst == ParseEndpoint(parts[2])
      IN  IF ~src.ok THEN src
          ELSE IF ~dst.ok THEN dst
          ELSE Returned([src_selector |-> src.val.selector,
                         src_index |-> src.val.index,
                         dst_selector |-> dst.val.selector,
                         dst_index |-> dst.val.index])

\* parse_edge(edge)
ParseEdge(edge) ==
    IF ~Contains(edge, Arrow)
    THEN Raised("UsageError", "must be formatted", <<edge>>)
    ELSE
      LET parts == SplitFirst(edge, Arrow)
          src == ParseEndpoint(parts[1])
          dst == ParseEndpoint(parts[2])
      IN  IF ~src.ok THEN src
          ELSE IF ~dst.ok THEN dst
          ELSE Returned([src_selector |-> src.val.selector,
                         src_index |-> src.val.index,
                         dst_selector |-> dst.val.selector,
                         dst_index |-> dst.val.index])

\* list[index] as Python indexes a list: from the end for a negative index,
\* IndexError outside the list.
ListIndexInRange(list, index) == 0 - Len(list) <= index /\ index < Len(list)

ListIndex(list, index) ==
    IF index >= 0 THEN list[index + 1] ELSE list[Len(list) + index + 1]

\* ResolvePort with the bounds check `index > len(ports)`.
ResolvePort_OffByOne(objs, selector, index, dir) ==
    LET r == ResolveSelector(objs, selector)
        ports == IF dir = "out" THEN r.val.obj.outs ELSE r.val.obj.ins
    IN  IF ~r.ok THEN r
        ELSE IF index > Len(ports)
        THEN Raised("ObjectResolutionError", "index out of range",
                    [index |-> index, label |-> r.val.label,
                     dir |-> dir, count |-> Len(ports)])
        ELSE IF ~ListIndexInRange(ports, index)
        THEN Raised("IndexError", "list index out of range", <<>>)
        ELSE Returned([label |-> r.val.label, port |-> ListIndex(ports, index)])

\* The body shared by resolve_outlet and resolve_inlet, on the port list
\* ports(obj) of the resolved object.
ResolvePort(objs, selector, index, dir) ==
    LET r == ResolveSelector(objs, selector)
        ports == IF dir = "out" THEN r.val.obj.outs ELSE r.val.obj.ins
    IN  IF ~r.ok THEN r
        ELSE IF index >= Len(ports)
        THEN Raised("ObjectResolutionError", "index out of range",
                    [index |-> index, label |-> r.val.label,
                     dir |-> dir, count |-> Len(ports)])
        ELSE IF ~ListIndexInRange(ports, index)
        THEN Raised("IndexError", "list index out of range", <<>>)
        ELSE Returned([label |-> r.val.label, port |-> ListIndex(ports, index)])

\* resolve_outlet(patch, selector, index)
ResolveOutlet(objs, selector, index) == ResolvePort(objs, selector, index, "out")

\* resolve_inlet(patch, selector, index)
ResolveInlet(objs, selector, index) == ResolvePort(objs, selector, index, "in")

----------------------------------------------------------------------------
(* Inputs of the resolver.                                                 *)

\* The most objects in a patch, the most spaces around a selector, the
\* longest text tried exhaustively, the largest port index written in an
\* edge text, and the most ports on one side of an object.
MaxObjs  == 3
MaxPad   == 1
MaxLen   == 4
MaxIndex == 10
MaxPorts == 2

Spaces(n) == [i \in 1..n |-> " "]
Pads == {Spaces(n) : n \in 0..MaxPad}

\* Keys of patch.objs: a plain identifier, one with a leading space, a
\* machine-assigned one, and one spelled like an alias selector.
LabelPool ==
    {<<"a">>, <<" ", "a">>, ObjDash \o <<"1">>, AtAlias \o <<"a">>}

\* Varnames: none, a plain one, one with a leading space, and one spelled
\* like a machine-assigned id.
VarnamePool == {NoneText, <<"a">>, <<" ", "a">>, ObjDash \o <<"2">>}

Injective(f) == \A i, j \in DOMAIN f : f[i] = f[j] => i = j

\* Patches for selector resolution: up to MaxObjs objects with distinct keys,
\* in every order, each with one outlet and one inlet.
SelectorPatches ==
    UNION {
      {[i \in 1..n |-> Object(ls[i], vs[i], 1, 1)] :
          ls \in {f \in [1..n -> LabelPool] : Injective(f)},
          vs \in [1..n -> VarnamePool]} :
      n \in 0..MaxObjs}

SelectorCores ==
    {<<>>, <<"a">>, <<"b">>, ObjDash \o <<"1">>, ObjDash \o <<"2">>,
     AtAlias, AtAlias \o <<"a">>, AtAlias \o <<" ", "a">>,
     AtAlias \o <<"b">>, AtAlias \o ObjDash \o <<"2">>}

Selectors == {l \o c \o r : l \in Pads, c \in SelectorCores, r \in Pads}

\* Patches for port resolution: objects with every count of outlets and
\* inlets up to MaxPorts.
PortLabelPool == {<<"a">>, ObjDash \o <<"1">>}
PortVarnamePool == {NoneText, <<"v">>}

PortPatches ==
    UNION {
      {[i \in 1..n |-> Object(ls[i], vs[i], os[i], is[i])] :
          ls \in {f \in [1..n -> PortLabelPool] : Injective(f)},
          vs \in [1..n -> PortVarnamePool],
          os \in [1..n -> 0..MaxPorts],
          is \in [1..n -> 0..MaxPorts]} :
      n \in 1..2}

\* Endpoint texts "<selector>:<index>" given to --from / --to.
EndpointSelectors ==
    {<<"a">>, ObjDash \o <<"1">>, <<"v">>, AtAlias \o <<"v">>, <<"z">>}

IndexTexts ==
    {IntToStr(n) : n \in 0..(MaxPorts + 1)} \cup {<<"-", "1">>, <<" ", "1">>, <<"x">>}

Endpoints == {sel \o Colon \o ix : sel \in EndpointSelectors, ix \in IndexTexts}

\* Texts tried exhaustively: every text of at most MaxLen characters.
TextAlphabet == {"a", " ", ":", "-", ">", "1"}
ShortTexts == SeqsUpTo(TextAlphabet, MaxLen)

\* The example of an alias selector with a port index.
AliasOscTwo == AtAlias \o <<"o", "s", "c", ":", "2">>

\* Edge texts "<s>:<i>-><d>:<j>".
EdgeSources ==
    {<<"a">>, <<" ", "a">>, <<"a", " ">>, ObjDash \o <<"1">>,
     AtAlias \o <<"a">>, <<"a", "-">>, <<">">>}
EdgeDestinations == EdgeSources \cup {<<"b", "-", ">", "c">>}

EdgeText(s, i, d, j) ==
    s \o Colon \o IntToStr(i) \o Arrow \o d \o Colon \o IntToStr(j)

EdgeTexts ==
    {EdgeText(s, i, d, j) :
        s \in EdgeSources, d \in EdgeDestinations,
        i \in {0, 1, MaxIndex}, j \in {0, MaxIndex}}

NoCall == [fn |-> "none", text |-> <<>>, selector |-> <<>>, index |-> 0]
NoResult == [ok |-> FALSE, error |-> "none", why |-> "none", val |-> <<>>]

ResolverIdle ==
    /\ patch = [objs |-> <<>>, lines |-> <<>>]
    /\ call = NoCall
    /\ result = NoResult

\* resolve_selector is called on a patch.
CallResolveSelector ==
    /\ call = NoCall
    /\ \E sel \in Selectors :
         /\ call' = [fn |-> "resolve_selector", text |-> sel,
                     selector |-> sel, index |-> 0]
         /\ result' = ResolveSelector(patch.objs, sel)
    /\ UNCHANGED <<patch, pipelineVars, commandVars, remapVars, exportVars, mainVars>>

\* An endpoint is parsed and, as connect does with --from (main.py 498, 500),
\* its selector and index are handed to resolve_outlet.
CallResolveOutlet ==
    /\ call = NoCall
    /\ \E e \in Endpoints :
         /\ ParseEndpoint(e).ok
         /\ call' = [fn |-> "resolve_outlet", text |-> e,
                     selector |-> ParseEndpoint(e).val.selector,
                     index |-> ParseEndpoint(e).val.index]
         /\ result' = ResolveOutlet(patch.objs, ParseEndpoint(e).val.selector,
                                    ParseEndpoint(e).val.index)
    /\ UNCHANGED <<patch, pipelineVars, commandVars, remapVars, exportVars, mainVars>>

\* The same with --to and resolve_inlet (main.py 499, 501).
CallResolveInlet ==
    /\ call = NoCall
    /\ \E e \in Endpoints :
         /\ ParseEndpoint(e).ok
         /\ call' = [fn |-> "resolve_inlet", text |-> e,
                     selector |-> ParseEndpoint(e).val.selector,
                     index |-> ParseEndpoint(e).val.index]
         /\ result' = ResolveInlet(patch.objs, ParseEndpoint(e).val.selector,
                                   ParseEndpoint(e).val.index)
    /\ UNCHANGED <<patch, pipelineVars, commandVars, remapVars, exportVars, mainVars>>

\* parse_endpoint is called on a text.
CallParseEndpoint ==
    /\ call = NoCall
    /\ \E e \in ShortTexts \cup Endpoints \cup {AliasOscTwo} :
         /\ call' = [fn |-> "parse_endpoint", text |-> e,
                     selector |-> <<>>, index |-> 0]
         /\ result' = ParseEndpoint(e)
    /\ UNCHANGED <<patch, pipelineVars, commandVars, remapVars, exportVars, mainVars>>

\* parse_edge is called on a text.
CallParseEdge ==
    /\ call = NoCall
    /\ \E e \in ShortTexts \cup EdgeTexts :
         /\ call' = [fn |-> "parse_edge", text |-> e,
                     selector |-> <<>>, index |-> 0]
         /\ result' = ParseEdge(e)
    /\ UNCHANGED <<patch, pipelineVars, commandVars, remapVars, exportVars, mainVars>>

----------------------------------------------------------------------------
(* The connect and delete commands (main.py connect_command._action and    *)
(* delete_command._action), one step per statement that can fail.          *)

\* The most --edge, --from, --to or --obj options on one command line.
MaxRefs == 2

\* A path on disk: missing, a directory, a file the engine cannot load, or a
\* patch file with its objects and lines.
MissingFile == [kind |-> "missing", objs |-> <<>>, lines |-> <<>>]
Directory   == [kind |-> "dir", objs |-> <<>>, lines |-> <<>>]
CorruptFile == [kind |-> "corrupt", objs |-> <<>>, lines |-> <<>>]
PatchFile(p) == [kind |-> "patch", objs |-> p.objs, lines |-> p.lines]

ObjA == Object(<<"a">>, <<"v">>, 1, 1)
ObjOne == Object(ObjDash \o <<"1">>, NoneText, 1, 1)

\* The patch stored at --in: two objects and one patch line.
InputPatch ==
    [objs |-> <<ObjA, ObjOne>>,
     lines |-> << <<ObjOne.outs[1], ObjA.ins[1]>> >>]

NotLoaded == [objs |-> <<>>, lines |-> <<>>]

\* --edge values: one that resolves, one whose destination is not in the
\* patch, one without an arrow.
ConnectEdgePool ==
    {EdgeText(<<"a">>, 0, ObjDash \o <<"1">>, 0),
     EdgeText(<<"a">>, 0, <<"z">>, 0),
     <<"a">> \o Colon \o <<"0">>}
DeleteEdgePool ==
    {EdgeText(ObjDash \o <<"1">>, 0, <<"v">>, 0),
     EdgeText(<<"a">>, 0, <<"z">>, 0),
     <<"a">> \o Colon \o <<"0">>}

\* --from values: one that resolves, one that does not parse.
FromPool == {<<"v">> \o Colon \o <<"0">>, <<"a">>}
\* --to values: one that resolves, one whose index is out of range.
ToPool == {ObjDash \o <<"1">> \o Colon \o <<"0">>,
           ObjDash \o <<"1">> \o Colon \o <<"1">>}
\* --obj values: an identifier, an alias, and a name not in the patch.
ObjPool == {<<"a">>, <<"v">>, <<"z">>}

NoCommand ==
    [name |-> "none", edges |-> <<>>, froms |-> <<>>, tos |-> <<>>,
     selectors |-> <<>>, pc |-> "idle", i |-> 0, stage |-> "parse",
     parsed |-> [src_selector |-> <<>>, src_index |-> 0,
                 dst_selector |-> <<>>, dst_index |-> 0],
     outlet |-> [owner |-> <<>>, dir |-> "none", index |-> 0],
     connections |-> <<>>,
     object_ids |-> <<>>, target |-> "none", error |-> "none",
     why |-> "none", engine |-> <<>>,
     disk |-> [in |-> MissingFile, out |-> MissingFile],
     out_opt |-> "unset", in_place |-> FALSE, strict |-> FALSE,
     checked |-> FALSE, warnings |-> <<>>, reported |-> <<>>,
     writes |-> <<>>]

CommandIdle == cmd = NoCommand

InputFiles == {MissingFile, Directory, CorruptFile, PatchFile(InputPatch)}

ConnectInvocations ==
    {[NoCommand EXCEPT !.name = "connect", !.pc = "start", !.edges = es,
                       !.froms = fs, !.tos = ts, !.disk.in = f] :
        es \in SeqsUpTo(ConnectEdgePool, MaxRefs),
        fs \in SeqsUpTo(FromPool, MaxRefs),
        ts \in SeqsUpTo(ToPool, MaxRefs),
        f \in InputFiles}

DeleteInvocations ==
    {[NoCommand EXCEPT !.name = "delete", !.pc = "start", !.edges = es,
                       !.selectors = ss, !.disk.in = f] :
        es \in SeqsUpTo(DeleteEdgePool, MaxRefs),
        ss \in SeqsUpTo(ObjPool, MaxRefs),
        f \in InputFiles}

\* A patch file that is already at the --out path.
OldPatch == [objs |-> <<ObjA>>, lines |-> <<>>]
OutputFiles == {MissingFile, PatchFile(OldPatch)}

\* The other commands that write a file.  new takes no input; place, replace,
\* save and export-amxd load theirs first.  replace names its target with a
\* selector.
NewInvocations ==
    {[NoCommand EXCEPT !.name = "new", !.pc = "start", !.disk.out = g] :
        g \in OutputFiles}

LoadingInvocations ==
    {[NoCommand EXCEPT !.name = n, !.pc = "load", !.disk.in = f,
                       !.disk.out = g] :
        n \in {"place", "save", "export-amxd"}, f \in InputFiles,
        g \in OutputFiles}

ReplaceInvocations ==
    {[NoCommand EXCEPT !.name = "replace", !.pc = "load", !.selectors = <<t>>,
                       !.disk.in = f, !.disk.out = g] :
        t \in ObjPool, f \in InputFiles, g \in OutputFiles}

\* The action raises: nothing after the raise statement runs.
Fail(c, cls, why) == [c EXCEPT !.pc = "failed", !.error = cls, !.why = why]

\* patch.connect(*connections) of the graph engine: the lines are added.
Connect(p, connections) == [p EXCEPT !.lines = p.lines \o connections]

\* patch.delete(objs=..., cords=...) of the graph engine: the objects go,
\* with the lines that touch them, and so do the lines listed in cords.
Delete(p, ids, cords) ==
    [objs |-> SelectSeq(p.objs, LAMBDA o : o.label \notin Range(ids)),
     lines |-> SelectSeq(p.lines,
                  LAMBDA l : /\ l \notin Range(cords)
                             /\ l[1].owner \notin Range(ids)
                             /\ l[2].owner \notin Range(ids))]

\* list(dict.fromkeys(object_ids)): duplicates removed, first places kept.
RECURSIVE Dedup(_)
Dedup(s) ==
    IF s = <<>> THEN <<>>
    ELSE LET front == Dedup(SubSeq(s, 1, Len(s) - 1))
         IN  IF s[Len(s)] \in Range(front) THEN front
             ELSE Append(front, s[Len(s)])

\* One --edge: parse_edge, resolve_outlet, resolve_inlet, in that order.
EdgeResolution(objs, edge) ==
    LET e == ParseEdge(edge)
    IN  IF ~e.ok THEN e
        ELSE
          LET o == ResolveOutlet(objs, e.val.src_selector, e.val.src_index)
          IN  IF ~o.ok THEN o
              ELSE
                LET n == ResolveInlet(objs, e.val.dst_selector,
                                      e.val.dst_index)
                IN  IF ~n.ok THEN n
                    ELSE Returned(<<o.val.port, n.val.port>>)

\* One --from/--to pair: parse_endpoint twice, then resolve_outlet and
\* resolve_inlet.
PairResolution(objs, raw_from, raw_to) ==
    LET s == ParseEndpoint(raw_from)
    IN  IF ~s.ok THEN s
        ELSE
          LET d == ParseEndpoint(raw_to)
          IN  IF ~d.ok THEN d
              ELSE
                LET o == ResolveOutlet(objs, s.val.selector, s.val.index)
                IN  IF ~o.ok THEN o
                    ELSE
                      LET n == ResolveInlet(objs, d.val.selector, d.val.index)
                      IN  IF ~n.ok THEN n
                          ELSE Returned(<<o.val.port, n.val.port>>)

notCommandVars == <<pipelineVars, call, result, remapVars, exportVars, mainVars>>

\* connect_command._action 465-472: the argument checks.
ConnectCheckArgs ==
    /\ cmd.name = "connect" /\ cmd.pc = "start"
    /\ cmd' =
         IF cmd.edges = <<>> /\ cmd.froms = <<>> /\ cmd.tos = <<>>
         THEN Fail(cmd, "UsageError", "requires at least one edge or pair")
         ELSE IF (cmd.froms # <<>>) # (cmd.tos # <<>>)
         THEN Fail(cmd, "UsageError", "must be provided together")
         ELSE IF Len(cmd.froms) # Len(cmd.tos)
         THEN Fail(cmd, "UsageError", "must appear the same number of times")
         ELSE [cmd EXCEPT !.pc = "load"]
    /\ UNCHANGED <<patch, notCommandVars>>

\* delete_command._action 629-630: the argument check.
DeleteCheckArgs ==
    /\ cmd.name = "delete" /\ cmd.pc = "start"
    /\ cmd' =
         IF cmd.selectors = <<>> /\ cmd.edges = <<>>
         THEN Fail(cmd, "UsageError", "requires at least one obj or edge")
         ELSE [cmd EXCEPT !.pc = "load"]
    /\ UNCHANGED <<patch, notCommandVars>>

\* load_patch(input_path)
LoadPatch ==
    /\ cmd.pc = "load"
    /\ LET f == cmd.disk.in
       IN  IF f.kind = "missing"
           THEN /\ cmd' = Fail(cmd, "UsageError", "input patch not found")
                /\ UNCHANGED patch
           ELSE IF f.kind = "dir"
           THEN /\ cmd' = Fail(cmd, "UsageError", "input patch must be a file")
                /\ UNCHANGED patch
           ELSE IF f.kind = "corrupt"
           THEN /\ cmd' = Fail([cmd EXCEPT !.engine = Append(@, "load")],
                               "ValidationError", "failed to load patch")
                /\ UNCHANGED patch
           ELSE /\ cmd' = [cmd EXCEPT !.pc = IF cmd.name = "export-amxd"
                                             THEN "export" ELSE "output",
                                      !.engine = Append(@, "load")]
                /\ patch' = [objs |-> f.objs, lines |-> f.lines]
    /\ UNCHANGED notCommandVars

\* The path --out names: none, a path of its own, or the input file.
OutOptions == {"none", "other", "same"}

\* resolve_output_path(input_path, output_path, in_place, require_output=False)
\* on an input path that is not None: the file slot to write, or none when
\* the UsageError is raised.
ResolvedOutput_InputByDefault(out_opt, in_place) ==
    IF out_opt = "other" THEN "out"
    ELSE "in"

ResolvedOutput(out_opt, in_place) ==
    IF out_opt = "other" THEN "out"
    ELSE IF out_opt = "same" THEN "in"
    ELSE IF in_place THEN "in"
    ELSE "none"

\* place 349-354, connect 475-480, replace 559-564, delete 633-638 and save
\* 756-761: resolve_output_path with the --out option and the in-place
\* setting of the command line.  save goes on to its health check, the others
\* to their arguments.
ResolveOutputPath ==
    /\ cmd.pc = "output"
    /\ \E out_opt \in OutOptions, in_place \in BOOLEAN :
         LET c == [cmd EXCEPT !.out_opt = out_opt, !.in_place = in_place]
             t == ResolvedOutput(out_opt, in_place)
         IN  cmd' =
               IF t = "none" THEN Fail(c, "UsageError", "missing --out")
               ELSE [c EXCEPT !.target = t,
                              !.pc = IF cmd.name = "save" THEN "guard"
                                     ELSE "resolve",
                              !.i = 1]
    /\ UNCHANGED <<patch, notCommandVars>>

\* The references of the command line in the order the action takes them:
\* connect takes the edges, then the from/to pairs; delete takes the
\* selectors, then the edges.
References(c) ==
    IF c.name = "connect"
    THEN [k \in 1..Len(c.edges) |-> [kind |-> "edge", text |-> c.edges[k],
                                     other |-> <<>>]]
         \o [k \in 1..Len(c.froms) |-> [kind |-> "pair", text |-> c.froms[k],
                                        other |-> c.tos[k]]]
    ELSE [k \in 1..Len(c.selectors) |-> [kind |-> "obj",
                                         text |-> c.selectors[k],
                                         other |-> <<>>]]
         \o [k \in 1..Len(c.edges) |-> [kind |-> "edge", text |-> c.edges[k],
                                        other |-> <<>>]]

\* What one pass of a loop body does with reference ref.
Resolution(objs, ref) ==
    IF ref.kind = "edge" THEN EdgeResolution(objs, ref.text)
    ELSE IF ref.kind = "pair" THEN PairResolution(objs, ref.text, ref.other)
    ELSE ResolveSelector(objs, ref.text)

\* The loop bodies start on the next reference.  connect 485 and delete 650:
\* parse_edge(edge).  connect 498-499: parse_endpoint(raw_from), then
\* parse_endpoint(raw_to).  delete 642-643: resolve_selector(patch, selector),
\* whose label is collected.
ParseNext ==
    /\ cmd.pc = "resolve" /\ cmd.i <= Len(References(cmd))
    /\ cmd.stage = "parse"
    /\ LET ref == References(cmd)[cmd.i]
       IN  \/ /\ ref.kind = "edge"
              /\ LET e == ParseEdge(ref.text)
                 IN  cmd' = IF ~e.ok THEN Fail(cmd, e.error, e.why)
                            ELSE [cmd EXCEPT !.stage = "outlet",
                                             !.parsed = e.val]
           \/ /\ ref.kind = "pair"
              /\ LET f == ParseEndpoint(ref.text)
                     t == ParseEndpoint(ref.other)
                 IN  cmd' = IF ~f.ok THEN Fail(cmd, f.error, f.why)
                            ELSE IF ~t.ok THEN Fail(cmd, t.error, t.why)
                            ELSE [cmd EXCEPT
                                    !.stage = "outlet",
                                    !.parsed =
                                       [src_selector |-> f.val.selector,
                                        src_index |-> f.val.index,
                                        dst_selector |-> t.val.selector,
                                        dst_index |-> t.val.index]]
           \/ /\ ref.kind = "obj"
              /\ LET r == ResolveSelector(patch.objs, ref.text)
                 IN  cmd' = IF ~r.ok THEN Fail(cmd, r.error, r.why)
                            ELSE [cmd EXCEPT
                                    !.i = @ + 1,
                                    !.object_ids = Append(@, r.val.label)]
    /\ UNCHANGED <<patch, notCommandVars>>

\* connect 486 and 500, delete 651: resolve_outlet(patch, src_selector,
\* src_index).
ResolveSource ==
    /\ cmd.pc = "resolve" /\ cmd.stage = "outlet"
    /\ LET o == ResolveOutlet(patch.objs, cmd.parsed.src_selector,
                              cmd.parsed.src_index)
       IN  cmd' = IF ~o.ok THEN Fail(cmd, o.error, o.why)
                  ELSE [cmd EXCEPT !.stage = "inlet", !.outlet = o.val.port]
    /\ UNCHANGED <<patch, notCommandVars>>

\* ResolveDestination applying each connection to the patch as soon as it
\* resolves.
ResolveDestination_Eager ==
    /\ cmd.pc = "resolve" /\ cmd.stage = "inlet"
    /\ LET n == ResolveInlet(patch.objs, cmd.parsed.dst_selector,
                             cmd.parsed.dst_index)
       IN  IF ~n.ok
           THEN /\ cmd' = Fail(cmd, n.error, n.why)
                /\ UNCHANGED patch
           ELSE /\ cmd' = [cmd EXCEPT
                             !.stage = "parse", !.i = @ + 1,
                             !.connections =
                                Append(@, <<cmd.outlet, n.val.port>>),
                             !.engine = Append(@, cmd.name)]
                /\ patch' = IF cmd.name = "connect"
                            THEN Connect(patch, <<<<cmd.outlet, n.val.port>>>>)
                            ELSE Delete(patch, <<>>,
                                        <<<<cmd.outlet, n.val.port>>>>)
    /\ UNCHANGED notCommandVars

\* connect 487-488 and 501-502, delete 652-653: resolve_inlet(patch,
\* dst_selector, dst_index); the pair of ports is collected and the patch is
\* left alone.
ResolveDestination ==
    /\ cmd.pc = "resolve" /\ cmd.stage = "inlet"
    /\ LET n == ResolveInlet(patch.objs, cmd.parsed.dst_selector,
                             cmd.parsed.dst_index)
       IN  cmd' = IF ~n.ok THEN Fail(cmd, n.error, n.why)
                  ELSE [cmd EXCEPT
                          !.stage = "parse", !.i = @ + 1,
                          !.connections =
                             Append(@, <<cmd.outlet, n.val.port>>)]
    /\ UNCHANGED <<patch, notCommandVars>>

\* connect 511: patch.connect(*connections)
ConnectMutate ==
    /\ cmd.name = "connect"
    /\ cmd.pc = "resolve" /\ cmd.i > Len(References(cmd))
    /\ cmd.stage = "parse"
    /\ patch' = Connect(patch, cmd.connections)
    /\ cmd' = [cmd EXCEPT !.pc = "finalize", !.engine = Append(@, "connect")]
    /\ UNCHANGED notCommandVars

\* delete 646 and 655: patch.delete(objs=dedup_ids, cords=cords)
DeleteMutate ==
    /\ cmd.name = "delete"
    /\ cmd.pc = "resolve" /\ cmd.i > Len(References(cmd))
    /\ cmd.stage = "parse"
    /\ patch' = Delete(patch, Dedup(cmd.object_ids), cmd.connections)
    /\ cmd' = [cmd EXCEPT !.pc = "finalize", !.engine = Append(@, "delete")]
    /\ UNCHANGED notCommandVars

\* place 356-401: the checks of the spacing options, which may raise
\* UsageError, then patch.place of the graph engine, which adds the objects.
PlacedObject == Object(ObjDash \o <<"2">>, NoneText, 1, 1)

PlaceMutate ==
    /\ cmd.name = "place" /\ cmd.pc = "resolve"
    /\ \E options_ok \in BOOLEAN :
         IF options_ok
         THEN /\ patch' = [patch EXCEPT !.objs = Append(@, PlacedObject)]
              /\ cmd' = [cmd EXCEPT !.pc = "finalize",
                                    !.engine = Append(@, "place")]
         ELSE /\ cmd' = Fail(cmd, "UsageError", "spacing options")
              /\ UNCHANGED patch
    /\ UNCHANGED notCommandVars

\* patch.replace(target_id, replacement) of the graph engine: the object
\* keeps its place and its identifier and takes the outlets of the new class.
Replace(p, id) ==
    [p EXCEPT !.objs = [k \in 1..Len(p.objs) |->
                           IF p.objs[k].label = id
                           THEN [p.objs[k] EXCEPT !.outs = Ports(id, "out", 2)]
                           ELSE p.objs[k]]]

\* replace 566-575: resolve_selector(patch, target), then patch.replace.
ReplaceMutate ==
    /\ cmd.name = "replace" /\ cmd.pc = "resolve"
    /\ LET r == ResolveSelector(patch.objs, cmd.selectors[1])
       IN  IF r.ok
           THEN /\ patch' = Replace(patch, r.val.label)
                /\ cmd' = [cmd EXCEPT !.pc = "finalize",
                                      !.engine = Append(@, "replace")]
           ELSE /\ cmd' = Fail(cmd, r.error, r.why)
                /\ UNCHANGED patch
    /\ UNCHANGED notCommandVars

\* new 250: MaxPatch(template=...) or MaxPatch(); --out is required, so the
\* target is the --out path.
NewPatch ==
    /\ cmd.name = "new" /\ cmd.pc = "start"
    /\ \E template \in {NotLoaded, InputPatch} : patch' = template
    /\ cmd' = [cmd EXCEPT !.pc = "guard", !.out_opt = "other",
                          !.target = "out", !.engine = Append(@, "new")]
    /\ UNCHANGED notCommandVars

\* The warnings of collect_patch_health: none, or one.
HealthWarnings == {<<>>, << <<"1 unknown object(s)">> >>}

\* collect_patch_health followed by strict_guard(strict, health): the
\* ValidationError when strict is set and there is a warning.
StrictGuard_Lenient(c, strict, warnings) ==
    [c EXCEPT !.strict = strict, !.warnings = warnings, !.checked = TRUE]

StrictGuard(c, strict, warnings) ==
    LET h == [c EXCEPT !.strict = strict, !.warnings = warnings,
                       !.checked = TRUE]
    IN  IF strict /\ warnings # <<>>
        THEN Fail(h, "ValidationError", "strict mode failed")
        ELSE h

\* save_patch(patch, output_path): the file is written, or the
\* ValidationError of a failed write is raised.
SavePatch(c, p, writable) ==
    IF ~writable
    THEN Fail([c EXCEPT !.engine = Append(@, "save")],
              "ValidationError", "failed to save patch")
    ELSE [c EXCEPT !.engine = Append(@, "save"),
                   !.disk[c.target] = PatchFile(p),
                   !.writes = Append(@, c.target)]

\* collect_patch_health, strict_guard, save_patch, and the payload with the
\* warnings of the health check.
GuardAndSave(c, p, strict, warnings, writable) ==
    LET g == StrictGuard(c, strict, warnings)
    IN  IF g.pc = "failed" THEN g
        ELSE LET w == SavePatch(g, p, writable)
             IN  IF w.pc = "failed" THEN w
                 ELSE [w EXCEPT !.pc = "done", !.reported = warnings]

\* _finalize_mutation of place, connect, replace and delete.  The engine
\* reports warnings or not, strict mode is on or off, and the write succeeds
\* or not.
FinalizeMutation ==
    /\ cmd.pc = "finalize"
    /\ \E warnings \in HealthWarnings, strict \in BOOLEAN, writable \in BOOLEAN :
         cmd' = GuardAndSave(cmd, patch, strict, warnings, writable)
    /\ UNCHANGED <<patch, notCommandVars>>

\* new 251-253 and save 762-764: the same three calls, written out in the
\* action.
NewOrSaveWrite ==
    /\ cmd.pc = "guard"
    /\ \E warnings \in HealthWarnings, strict \in BOOLEAN, writable \in BOOLEAN :
         cmd' = GuardAndSave(cmd, patch, strict, warnings, writable)
    /\ UNCHANGED <<patch, notCommandVars>>

\* export-amxd 823-832: collect_patch_health, strict_guard, then
\* export_amxd_file, which refuses before it writes (the output exists and
\* --overwrite is not given), writes the export and returns, or writes it and
\* fails in a later step.
ExportAmxd ==
    /\ cmd.name = "export-amxd" /\ cmd.pc = "export"
    /\ \E warnings \in HealthWarnings, strict \in BOOLEAN,
          overwrite \in BOOLEAN, later_ok \in BOOLEAN :
         LET g == StrictGuard([cmd EXCEPT !.out_opt = "other",
                                          !.target = "out"],
                              strict, warnings)
             w == [g EXCEPT !.engine = Append(@, "export"),
                            !.disk.out = PatchFile(patch),
                            !.writes = Append(@, "out")]
         IN  cmd' =
                  IF g.pc = "failed" THEN g
                  ELSE IF cmd.disk.out # MissingFile /\ ~overwrite
                  THEN Fail(g, "UsageError", "output already exists")
                  ELSE IF ~later_ok
                  THEN Fail(w, "ValidationError", "validation")
                  ELSE [w EXCEPT !.pc = "done", !.reported = warnings]
    /\ UNCHANGED <<patch, notCommandVars>>

----------------
(* The ID remapper of export_amxd.py: _next_object_index,                  *)
(* _build_helper_id_map and the renaming of the helper boxes in            *)
(* _inject_validation_helper.                                              *)

\* The most boxes in the exported patch and in the helper fragment.
MaxBoxes == 2
MaxHelpers == 2

\* What entry.get("box", {}).get("id") finds in a box entry: a string, a
\* value that is not a string (None when "box" or "id" is missing), or no
\* value at all because the entry or its "box" is not a JSON object.
StrId(t) == [kind |-> "str", text |-> t]
OtherId == [kind |-> "other", text |-> <<>>]
NotAnObject == [kind |-> "malformed", text |-> <<>>]

\* Identifiers of existing boxes.
BoxIdPool ==
    {StrId(ObjDash \o <<"1">>), StrId(ObjDash \o <<"9">>),
     StrId(ObjDash \o <<"1", "0">>), StrId(ObjDash \o <<"0", "7">>),
     StrId(ObjDash \o <<" ", "3">>), StrId(ObjDash \o <<"x">>),
     StrId(<<"x">>), OtherId, NotAnObject}

\* Identifiers of the boxes of the helper fragment.
HelperIdPool == {StrId(ObjDash \o <<"1">>), StrId(<<"h">>), OtherId}

Max(a, b) == IF a >= b THEN a ELSE b

\* The loop of _next_object_index over the entries left, max_id so far.
RECURSIVE ScanBoxes(_, _)
ScanBoxes(boxes, max_id) ==
    IF boxes = <<>> THEN max_id
    ELSE
      LET box_id == Head(boxes)
      IN  IF box_id.kind # "str"
          THEN ScanBoxes(Tail(boxes), max_id)
          ELSE IF ~StartsWith(box_id.text, ObjDash)
          THEN ScanBoxes(Tail(boxes), max_id)
          ELSE IF ~IntParses(SplitFirst(box_id.text, <<"-">>)[2])
          THEN ScanBoxes(Tail(boxes), max_id)
          ELSE ScanBoxes(Tail(boxes),
                         Max(max_id,
                             IntValue(SplitFirst(box_id.text, <<"-">>)[2])))

\* _next_object_index(boxes)
NextObjectIndex(boxes) == ScanBoxes(boxes, 0)

\* id_map[key] = value on a dict kept as its items in insertion order: a key
\* already present keeps its place and takes the new value.
DictSet(items, key, value) ==
    IF \E i \in 1..Len(items) : items[i].key = key
    THEN [i \in 1..Len(items) |->
            IF items[i].key = key THEN [key |-> key, value |-> value]
            ELSE items[i]]
    ELSE Append(items, [key |-> key, value |-> value])

\* `key in id_map` and id_map[key]
DictHas(items, key) == \E i \in 1..Len(items) : items[i].key = key
DictGet(items, key) ==
    items[CHOOSE i \in 1..Len(items) : items[i].key = key].value

\* The loop of _build_helper_id_map over the helper boxes left.
RECURSIVE AssignHelpers(_, _, _)
AssignHelpers(helper_boxes, next_index, id_map) ==
    IF helper_boxes = <<>> THEN Returned(id_map)
    ELSE IF Head(helper_boxes).kind # "str"
    THEN Raised("ValidationError", "invalid helper box id", <<>>)
    ELSE AssignHelpers(Tail(helper_boxes), next_index + 1,
                       DictSet(id_map, Head(helper_boxes).text,
                               ObjDash \o IntToStr(next_index)))

\* BuildHelperIdMap numbering from the highest existing index itself.
BuildHelperIdMap_FromMax(boxes, helper_boxes) ==
    IF \E i \in 1..Len(boxes) : boxes[i].kind = "malformed"
    THEN Raised("AttributeError", "object has no attribute 'get'", <<>>)
    ELSE AssignHelpers(helper_boxes, NextObjectIndex(boxes), <<>>)

\* _build_helper_id_map(boxes=boxes, helper_boxes=helper_boxes).  An entry
\* that is not a JSON object makes entry.get raise AttributeError.
BuildHelperIdMap(boxes, helper_boxes) ==
    IF \E i \in 1..Len(boxes) : boxes[i].kind = "malformed"
    THEN Raised("AttributeError", "object has no attribute 'get'", <<>>)
    ELSE AssignHelpers(helper_boxes, NextObjectIndex(boxes) + 1, <<>>)

\* _inject_validation_helper 213-223: each helper box is cloned, takes its
\* mapped id, and is appended to the boxes.
InjectedBoxes(boxes, helper_boxes, id_map) ==
    boxes \o [j \in 1..Len(helper_boxes) |->
                IF DictHas(id_map, helper_boxes[j].text)
                THEN StrId(DictGet(id_map, helper_boxes[j].text))
                ELSE helper_boxes[j]]

\* The text of the helper box that writes the patch back, and a text that
\* only starts like it.
WriteLiteral == <<"w", "r", "i", "t", "e">>
WriteSpace == <<"w", "r", "i", "t", "e", " ">>
HelperTextPool == {WriteLiteral, WriteSpace}

\* Validation paths: a plain one, and one with a double quote and a backslash
\* in the file name.
ValidationPathPool == {<<"/", "p">>, <<"/", "\"", "\\">>}

\* s.replace(c, t) for a one-character c.
RECURSIVE ReplaceWith(_, _, _)
ReplaceWith(s, c, t) ==
    IF s = <<>> THEN <<>>
    ELSE (IF Head(s) = c THEN t ELSE <<Head(s)>>)
            \o ReplaceWith(Tail(s), c, t)

\* WriteText leaving the path as it is.
WriteText_Unescaped(path) ==
    WriteSpace \o <<"\"">> \o path \o <<"\"">>

\* _inject_validation_helper 220-221: f'write "{escaped_path}"', the path with
\* each backslash doubled and then each double quote preceded by a backslash.
WriteText(path) ==
    WriteSpace \o <<"\"">>
       \o ReplaceWith(ReplaceWith(path, "\\", <<"\\", "\\">>),
                      "\"", <<"\\", "\"">>)
       \o <<"\"">>

\* _inject_validation_helper 213-223: the clones of the helper boxes as they
\* are appended: the mapped id, hidden = 1, and the text, rewritten when it is
\* "write".
ClonedHelpers(helper_boxes, helper_texts, id_map, path) ==
    [j \in 1..Len(helper_boxes) |->
       [id |-> IF DictHas(id_map, helper_boxes[j].text)
               THEN StrId(DictGet(id_map, helper_boxes[j].text))
               ELSE helper_boxes[j],
        hidden |-> 1,
        text |-> IF helper_texts[j] = WriteLiteral
                 THEN WriteText(path)
                 ELSE helper_texts[j]]]

\* The helper fragment's lines: one from each helper box to the next.
HelperLines(helper_boxes) ==
    [j \in 1..(Len(helper_boxes) - 1) |->
       [source |-> helper_boxes[j].text,
        destination |-> helper_boxes[j + 1].text]]

\* `id_map.get(key)` followed by `if mapped:`: the mapped id, or the key kept.
MappedOrKept(id_map, key) ==
    IF DictHas(id_map, key) THEN DictGet(id_map, key) ELSE key

\* ClonedLines with each end renamed through the map twice.
ClonedLines_Chained(helper_lines, id_map) ==
    [j \in 1..Len(helper_lines) |->
       [source |-> MappedOrKept(id_map,
                      MappedOrKept(id_map, helper_lines[j].source)),
        destination |-> MappedOrKept(id_map,
                           MappedOrKept(id_map, helper_lines[j].destination))]]

\* _inject_validation_helper 225-240: the clones of the helper lines, their
\* ends renamed through the map.
ClonedLines(helper_lines, id_map) ==
    [j \in 1..Len(helper_lines) |->
       [source |-> MappedOrKept(id_map, helper_lines[j].source),
        destination |-> MappedOrKept(id_map, helper_lines[j].destination)]]

NoRemap ==
    [pc |-> "idle", boxes |-> <<>>, helper_boxes |-> <<>>,
     existing |-> <<>>, result |-> NoResult,
     shape |-> "ok", helper_texts |-> <<>>, path |-> <<>>,
     injected |-> <<>>, lines |-> <<>>]

\* What _inject_validation_helper finds before it builds the map: a patcher
\* that is not a dict, boxes or lines that are not lists, an import-tools
\* file it cannot load, or none of these.
InjectionShapes == {"ok", "no patcher", "boxes not a list", "tools unreadable"}

RemapIdle == remap = NoRemap

notRemapVars == <<pipelineVars, resolverVars, commandVars, exportVars, mainVars>>

\* _inject_validation_helper 194-209: the checks of the patch's shape and the
\* load of the helper fragment.
EnterInjection ==
    /\ remap.pc = "entry"
    /\ remap' =
         IF remap.shape = "ok"
         THEN [remap EXCEPT !.pc = "start"]
         ELSE [remap EXCEPT
                 !.pc = "failed",
                 !.result = Raised("ValidationError", remap.shape, <<>>)]
    /\ UNCHANGED notRemapVars

\* _inject_validation_helper 211: the map is built.
CallBuildHelperIdMap ==
    /\ remap.pc = "start"
    /\ remap' = [remap EXCEPT
                   !.pc = "mapped",
                   !.result = BuildHelperIdMap(remap.boxes, remap.helper_boxes)]
    /\ UNCHANGED notRemapVars

\* _inject_validation_helper 213-223: the renamed helper boxes join the
\* boxes.  A raise of _build_helper_id_map ends the injection before.
InjectHelperBoxes ==
    /\ remap.pc = "mapped"
    /\ remap' =
         IF remap.result.ok
         THEN [remap EXCEPT
                 !.pc = "injected",
                 !.boxes = InjectedBoxes(remap.boxes, remap.helper_boxes,
                                         remap.result.val),
                 !.injected = ClonedHelpers(remap.helper_boxes,
                                            remap.helper_texts,
                                            remap.result.val, remap.path),
                 !.lines = ClonedLines(HelperLines(remap.helper_boxes),
                                       remap.result.val)]
         ELSE [remap EXCEPT !.pc = "failed"]
    /\ UNCHANGED notRemapVars

----------------------------------------------------------------------------
(* Export and validation (export_amxd.py).                                 *)

\* ---- resolve_max_app_path ----

\* A path is the sequence of its component names; the empty sequence is
\* Path(""), whose text is "." (so str(path) is never empty).
DefaultMaxAppPath == <<"Applications", "Max.app">>
OptMaxApp == <<"opt", "Max.app">>
OptInnerApp == <<"opt", "Max.app", "Inner.app">>

\* pathlib's suffix of a component name, for the names the paths are built of.
NameSuffix(name) ==
    IF name \in {"Max.app", "Inner.app"} THEN ".app" ELSE ""

\* Path.suffix: the suffix of the last component.
PathSuffix(p) == IF p = <<>> THEN "" ELSE NameSuffix(p[Len(p)])

\* Path.parents, nearest first, preceded by the path itself: position k of
\* [candidate, *candidate.parents] is the prefix with k - 1 components dropped.
SelfAndParents(p) == [k \in 1..(Len(p) + 1) |-> SubSeq(p, 1, Len(p) + 1 - k)]

\* The first entry of a list that ends in ".app"; fallback when none does.
RECURSIVE FirstBundle(_, _)
FirstBundle(paths, fallback) ==
    IF paths = <<>> THEN fallback
    ELSE IF PathSuffix(Head(paths)) = ".app" THEN Head(paths)
    ELSE FirstBundle(Tail(paths), fallback)

\* A variant that takes the last (outermost) entry that ends in ".app".
RECURSIVE LastBundle(_, _)
LastBundle(paths, fallback) ==
    IF paths = <<>> THEN fallback
    ELSE IF PathSuffix(paths[Len(paths)]) = ".app" THEN paths[Len(paths)]
    ELSE LastBundle(SubSeq(paths, 1, Len(paths) - 1), fallback)

\* A variant of _normalize_max_app_candidate that walks up to the outermost
\* ancestor that ends in ".app".
NormalizeMaxAppCandidate_Outermost(path) ==
    LastBundle(SelfAndParents(path), path)

\* _normalize_max_app_candidate 273-285.
NormalizeMaxAppCandidate(path) ==
    IF PathSuffix(path) = ".app" THEN path
    ELSE FirstBundle(SelfAndParents(path), path)

\* The configured paths and the disks resolve_max_app_path is run on: the
\* bundles that exist (a nested bundle only inside an existing one).
ConfiguredPool ==
    {DefaultMaxAppPath, OptMaxApp, OptInnerApp,
     OptMaxApp \o <<"Contents", "MacOS", "Max">>,
     OptInnerApp \o <<"bin">>,
     <<"opt", "Max">>, <<>>}

DiskPool ==
    {d \in SUBSET {DefaultMaxAppPath, OptMaxApp, OptInnerApp} :
        OptInnerApp \in d => OptMaxApp \in d}

NoApp ==
    [pc |-> "idle", configured |-> <<>>, disk |-> {}, candidates |-> <<>>,
     i |-> 0, normalized |-> <<>>, result |-> NoResult]

notAppVars == <<pipelineVars, resolverVars, commandVars, remapVars, export, mainVars>>

\* resolve_max_app_path 95-96: the candidate list.
BuildCandidates ==
    /\ app.pc = "start"
    /\ app' = [app EXCEPT !.candidates = <<app.configured, DefaultMaxAppPath>>,
                          !.i = 1, !.pc = "normalize"]
    /\ UNCHANGED notAppVars

\* resolve_max_app_path 98-99: normalize the next candidate.
NormalizeCandidate ==
    /\ app.pc = "normalize" /\ app.i <= Len(app.candidates)
    /\ app' = [app EXCEPT
                 !.normalized = NormalizeMaxAppCandidate(app.candidates[app.i]),
                 !.pc = "test"]
    /\ UNCHANGED notAppVars

\* resolve_max_app_path 100-101: return the candidate when it is a bundle
\* that exists, else go on to the next one.
TestCandidate ==
    /\ app.pc = "test"
    /\ app' =
         IF PathSuffix(app.normalized) = ".app" /\ app.normalized \in app.disk
         THEN [app EXCEPT !.result = Returned(app.normalized), !.pc = "done"]
         ELSE [app EXCEPT !.i = app.i + 1, !.pc = "normalize"]
    /\ UNCHANGED notAppVars

\* resolve_max_app_path 103-108: no candidate qualified.
MaxAppNotFound ==
    /\ app.pc = "normalize" /\ app.i > Len(app.candidates)
    /\ app' = [app EXCEPT
                 !.result = Raised("ValidationError", "Max.app not found",
                                   [k \in 1..Len(app.candidates) |->
                                      NormalizeMaxAppCandidate(app.candidates[k])]),
                 !.pc = "done"]
    /\ UNCHANGED notAppVars

\* resolve_max_app_path as one call, for its callers.
ResolveMaxAppPath(configured, disk) ==
    LET first == NormalizeMaxAppCandidate(configured)
        second == NormalizeMaxAppCandidate(DefaultMaxAppPath)
    IN  IF PathSuffix(first) = ".app" /\ first \in disk THEN Returned(first)
        ELSE IF PathSuffix(second) = ".app" /\ second \in disk THEN Returned(second)
        ELSE Raised("ValidationError", "Max.app not found", <<first, second>>)

\* ---- export_amxd_file and run_max_validation ----

\* Timeouts and clock readings are counted in ticks; the ticks that pass
\* outside time.sleep and the saves of the editor are bounded.
MaxTimeout == 2
MaxClock == 2
MaxSaves == 1

\* str.lower on the characters of a suffix.
LowerChar(c) ==
    CASE c = "A" -> "a" [] c = "M" -> "m" [] c = "X" -> "x" [] c = "D" -> "d"
      [] OTHER -> c

Lower(s) == [k \in 1..Len(s) |-> LowerChar(s[k])]

SuffixAmxd == <<".", "a", "m", "x", "d">>
SuffixPool == {SuffixAmxd, <<".", "A", "m", "x", "D">>,
               <<".", "m", "a", "x", "p", "a", "t">>, <<>>}

\* What the output path holds before the invocation (kept in `before`):
\* nothing, a file, or a directory.  Once written it holds "doc", the serialization of the patch.
\* The validation copy holds nothing ("absent"), "doc", the serialization
\* with the helper injected ("doc+helper"), what the editor saved ("saved"),
\* or bytes that are not JSON ("garbage").
OutPool == {"absent", "old", "dir"}

\* What subprocess.run returns for `open`.
ProcPool ==
    {[returncode |-> 0, stderr |-> <<>>, stdout |-> <<>>]}
      \cup [returncode : {1},
            stderr : {<<>>, <<" ">>, <<"e", "r", "r">>},
            stdout : {<<>>, <<"o", "u", "t">>}]

UnknownOpenFailure == <<"unknown open failure">>

\* first_test before the loop condition has been evaluated.
NotRead == 0 - 1

NoDetails == [app |-> <<>>, file |-> "none", stderr |-> <<>>]

\* The command line and the environment of one invocation.  The letter case
\* of the suffix and a missing parent directory, which play no part after the
\* write, vary in the invocations without validation.
ExportInputs ==
    {e \in [suffix : SuffixPool, out : OutPool, parent : BOOLEAN,
            overwrite : BOOLEAN, validate : BOOLEAN,
            has_timeout : BOOLEAN, timeout : 0..MaxTimeout,
            config_ok : BOOLEAN, wait_time : {1},
            platform : {"darwin", "linux"},
            configured : {OptMaxApp, <<"opt", "Max">>},
            disk : {{}, {OptMaxApp}, {DefaultMaxAppPath}}] :
        /\ e.out # "absent" => e.parent
        /\ ~e.has_timeout => e.timeout = 0
        /\ e.has_timeout => e.config_ok
        /\ e.validate => e.suffix = SuffixAmxd /\ e.parent}

NoExport ==
    [pc |-> "idle", suffix |-> <<>>, before |-> "absent", out |-> "absent",
     parent |-> FALSE, overwrite |-> FALSE, validate |-> FALSE,
     has_timeout |-> FALSE, timeout |-> 0, config_ok |-> FALSE, wait_time |-> 0,
     platform |-> "none", configured |-> <<>>, disk |-> {},
     resolved_timeout |-> 0, max_app |-> <<>>, tmp |-> FALSE, copy |-> "absent",
     mtime |-> 0, start_mtime |-> 0, current_mtime |-> 0, deadline |-> 0,
     clock |-> 0, first_test |-> NotRead, last_test |-> NotRead,
     parsed |-> "none", saved_at |-> NotRead,
     saved_as |-> "none", checks |-> 0, writes |-> <<>>, launches |-> <<>>,
     created |-> {}, gone_at |-> "none", result |-> NoResult,
     details |-> NoDetails, exit_code |-> NotExited]

ExportStart(e) ==
    [NoExport EXCEPT !.pc = "start", !.suffix = e.suffix,
                     !.before = e.out, !.out = e.out,
                     !.parent = e.parent, !.overwrite = e.overwrite,
                     !.validate = e.validate, !.has_timeout = e.has_timeout,
                     !.timeout = e.timeout, !.config_ok = e.config_ok,
                     !.wait_time = e.wait_time, !.platform = e.platform,
                     !.configured = e.configured, !.disk = e.disk]

notExportVars == <<pipelineVars, resolverVars, commandVars, remapVars, app, mainVars>>

\* A variant of Leave that puts the output path back as it was found.
Leave_RollBack(e, cls, why) ==
    [e EXCEPT !.result = Raised(cls, why, <<>>), !.pc = "done",
              !.out = e.before]

\* An exception leaves export_amxd_file from outside the `with` block.
Leave(e, cls, why) ==
    [e EXCEPT !.result = Raised(cls, why, <<>>), !.pc = "done"]

\* A variant of CleanUp that leaves the temporary directory behind.
CleanUp_Keep(e) == e

\* TemporaryDirectory.__exit__ (the `with` of run_max_validation 126): the
\* directory and everything in it is removed.
CleanUp(e) == [e EXCEPT !.tmp = FALSE, !.copy = "absent"]

\* An exception leaves the `with TemporaryDirectory` block.
LeaveWith(e, cls, why) == CleanUp(Leave(e, cls, why))

\* normalize_amxd_path 66-71, called at export_amxd_file 30.
NormalizeAmxdPath ==
    /\ export.pc = "start"
    /\ export' =
         IF Lower(export.suffix) # SuffixAmxd
         THEN Leave(export, "UsageError", "output path must use the .amxd extension")
         ELSE [export EXCEPT !.pc = "exists"]
    /\ UNCHANGED notExportVars

\* A variant of CheckOverwrite that never refuses.
CheckOverwrite_Always ==
    /\ export.pc = "exists"
    /\ export' = [export EXCEPT !.pc = "write"]
    /\ UNCHANGED notExportVars

\* export_amxd_file 32-35.
CheckOverwrite ==
    /\ export.pc = "exists"
    /\ export' =
         IF export.out # "absent" /\ ~export.overwrite
         THEN Leave(export, "UsageError", "output file already exists")
         ELSE [export EXCEPT !.pc = "write"]
    /\ UNCHANGED notExportVars

\* export_amxd_file 37-38 with _write_patch_json 185-190: the parent
\* directories are made and the serialization is written; opening a
\* directory for writing fails.
WriteExport ==
    /\ export.pc = "write"
    /\ export' =
         IF export.out = "dir"
         THEN Leave(export, "ValidationError", "failed to write patch JSON")
         ELSE [export EXCEPT
                 !.parent = TRUE,
                 !.out = "doc",
                 !.writes = Append(export.writes, "out"),
                 !.created = export.created
                               \cup (IF export.parent THEN {} ELSE {"parent"})
                               \cup (IF export.out = "absent" THEN {"out"} ELSE {}),
                 !.pc = "timeout"]
    /\ UNCHANGED notExportVars

\* export_amxd_file 40-44 with resolve_validation_timeout 74-89.
ResolveValidationTimeout ==
    /\ export.pc = "timeout"
    /\ export' =
         IF ~(export.validate \/ export.has_timeout)
         THEN [export EXCEPT !.pc = "return"]
         ELSE IF ~export.has_timeout /\ ~export.config_ok
         THEN Leave(export, "ValidationError", "invalid validation timeout value")
         ELSE IF (IF export.has_timeout THEN export.timeout ELSE export.wait_time) <= 0
         THEN Leave(export, "UsageError", "timeout must be greater than 0 seconds")
         ELSE [export EXCEPT
                 !.resolved_timeout =
                    IF export.has_timeout THEN export.timeout ELSE export.wait_time,
                 !.pc = IF export.validate THEN "app" ELSE "return"]
    /\ UNCHANGED notExportVars

\* export_amxd_file 48-49.
ResolveApp ==
    /\ export.pc = "app"
    /\ export' =
         IF ResolveMaxAppPath(export.configured, export.disk).ok
         THEN [export EXCEPT
                 !.max_app = ResolveMaxAppPath(export.configured, export.disk).val,
                 !.pc = "platform"]
         ELSE Leave(export, "ValidationError", "Max.app not found")
    /\ UNCHANGED notExportVars

\* run_max_validation 119-120.
CheckPlatform ==
    /\ export.pc = "platform"
    /\ export' =
         IF export.platform # "darwin"
         THEN Leave(export, "UsageError",
                    "export-amxd validation is currently supported on macOS only")
         ELSE [export EXCEPT !.pc = "open_export"]
    /\ UNCHANGED notExportVars

\* proc.stderr.strip() or proc.stdout.strip() or "unknown open failure"
LaunchDetail(proc) ==
    IF Strip(proc.stderr) # <<>> THEN Strip(proc.stderr)
    ELSE IF Strip(proc.stdout) # <<>> THEN Strip(proc.stdout)
    ELSE UnknownOpenFailure

\* A variant of OpenInMax that goes on after a failed launch.
OpenInMax_GoOn(e, file, proc, next, why) ==
    [e EXCEPT !.launches = Append(e.launches, [file |-> file, proc |-> proc]),
              !.pc = next]

\* _open_in_max 156-166 on `file`: the state after the subprocess returned
\* proc, going on at pc `next` when it succeeded.  `launches` keeps every
\* subprocess that was run.
OpenInMax(e, file, proc, next, why) ==
    IF proc.returncode = 0
    THEN [e EXCEPT !.launches = Append(e.launches, [file |-> file, proc |-> proc]),
                   !.pc = next]
    ELSE [e EXCEPT !.launches = Append(e.launches, [file |-> file, proc |-> proc]),
                   !.result = Raised("ValidationError", why, <<>>),
                   !.details = [app |-> e.max_app, file |-> file,
                                stderr |-> LaunchDetail(proc)],
                   !.pc = "done"]

\* run_max_validation 123.
OpenExport ==
    /\ export.pc = "open_export"
    /\ \E proc \in ProcPool :
         export' = OpenInMax(export, "out", proc, "tmpdir",
                             "failed to launch Max for .amxd")
    /\ UNCHANGED notExportVars

\* run_max_validation 126-127.
MakeTemporaryDirectory ==
    /\ export.pc = "tmpdir"
    /\ export' = [export EXCEPT !.tmp = TRUE,
                                !.created = export.created \cup {"tmp"},
                                !.pc = "clone"]
    /\ UNCHANGED notExportVars

\* run_max_validation 128-129: the export is read back and written to the
\* validation path.
CloneForValidation ==
    /\ export.pc = "clone"
    /\ export' = [export EXCEPT !.copy = export.out,
                                !.mtime = 0,
                                !.writes = Append(export.writes, "copy"),
                                !.created = export.created \cup {"copy"},
                                !.pc = "prepare"]
    /\ UNCHANGED notExportVars

\* A variant of PrepareValidationFile that injects the helper into the export
\* itself.
PrepareValidationFile_InPlace ==
    /\ export.pc = "prepare"
    /\ \E shape \in InjectionShapes :
         export' =
           IF shape # "ok"
           THEN LeaveWith(export, "ValidationError", shape)
           ELSE [export EXCEPT !.out = "doc+helper",
                               !.writes = Append(export.writes, "out"),
                               !.pc = "baseline"]
    /\ UNCHANGED notExportVars

\* run_max_validation 130 with _prepare_validation_file 169-172: the copy is
\* read, the helper injected (which fails on the shapes EnterInjection
\* rejects) and the copy written again, which leaves its modification time
\* where it was or advances it.
PrepareValidationFile ==
    /\ export.pc = "prepare"
    /\ \E shape \in InjectionShapes, later \in 0..1 :
         /\ shape # "ok" => later = 0
         /\ export' =
              IF shape # "ok"
              THEN LeaveWith(export, "ValidationError", shape)
              ELSE [export EXCEPT !.copy = "doc+helper",
                                  !.mtime = export.mtime + later,
                                  !.writes = Append(export.writes, "copy"),
                                  !.pc = "baseline"]
    /\ UNCHANGED notExportVars

\* run_max_validation 131: stat() raises FileNotFoundError on a missing file.
RecordBaseline ==
    /\ export.pc = "baseline"
    /\ export' =
         IF export.copy = "absent"
         THEN LeaveWith(export, "FileNotFoundError", "stat")
         ELSE [export EXCEPT !.start_mtime = export.mtime, !.pc = "open_copy"]
    /\ UNCHANGED notExportVars

\* run_max_validation 133-137; `open` fails on a file that is not there.
OpenValidationCopy ==
    /\ export.pc = "open_copy"
    /\ \E proc \in ProcPool :
         /\ export.copy = "absent" => proc.returncode # 0
         /\ export' =
              IF proc.returncode = 0
              THEN OpenInMax(export, "copy", proc, "deadline",
                             "failed to launch Max for validation .maxpat")
              ELSE CleanUp(OpenInMax(export, "copy", proc, "deadline",
                                     "failed to launch Max for validation .maxpat"))
    /\ UNCHANGED notExportVars

\* run_max_validation 139.
SetDeadline ==
    /\ export.pc = "deadline"
    /\ export' = [export EXCEPT !.deadline = export.clock + export.resolved_timeout,
                                !.pc = "loop"]
    /\ UNCHANGED notExportVars

\* A variant of LoopTest that gives up one tick before the deadline.
LoopTest_Early ==
    /\ export.pc = "loop"
    /\ export' =
         IF export.clock + 1 < export.deadline
         THEN [export EXCEPT !.pc = "sleep",
                 !.last_test = export.clock,
                 !.first_test = IF export.first_test = NotRead
                                THEN export.clock ELSE export.first_test]
         ELSE [LeaveWith(export, "ValidationError",
                         "timed out waiting for Max to write validation file")
                 EXCEPT !.last_test = export.clock,
                        !.first_test = IF export.first_test = NotRead
                                       THEN export.clock ELSE export.first_test]
    /\ UNCHANGED notExportVars

\* run_max_validation 140 and 151-153: the loop test, and the timeout when it
\* fails.  first_test keeps the clock reading of the first test, last_test
\* that of the latest.
LoopTest ==
    /\ export.pc = "loop"
    /\ export' =
         IF export.clock < export.deadline
         THEN [export EXCEPT !.pc = "sleep",
                 !.last_test = export.clock,
                 !.first_test = IF export.first_test = NotRead
                                THEN export.clock ELSE export.first_test]
         ELSE [LeaveWith(export, "ValidationError",
                         "timed out waiting for Max to write validation file")
                 EXCEPT !.last_test = export.clock,
                        !.first_test = IF export.first_test = NotRead
                                       THEN export.clock ELSE export.first_test]
    /\ UNCHANGED notExportVars

\* A variant of Sleep during which no time passes.
Sleep_Frozen ==
    /\ export.pc = "sleep"
    /\ export' = [export EXCEPT !.pc = "stat"]
    /\ UNCHANGED notExportVars

\* run_max_validation 141: time.sleep returns after the interval, one tick.
Sleep ==
    /\ export.pc = "sleep"
    /\ export' = [export EXCEPT !.clock = export.clock + 1, !.pc = "stat"]
    /\ UNCHANGED notExportVars

\* run_max_validation 142-145.
StatCopy ==
    /\ export.pc = "stat"
    /\ export' =
         IF export.copy = "absent"
         THEN [LeaveWith(export, "ValidationError",
                         "validation file disappeared during Max validation")
                 EXCEPT !.checks = export.checks + 1]
         ELSE [export EXCEPT !.current_mtime = export.mtime,
                             !.checks = export.checks + 1,
                             !.pc = "compare"]
    /\ UNCHANGED notExportVars

\* A variant of CompareMtime that takes an unchanged modification time for
\* the signal.
CompareMtime_NotStrict ==
    /\ export.pc = "compare"
    /\ export' = [export EXCEPT
                    !.pc = IF export.current_mtime >= export.start_mtime
                           THEN "reload" ELSE "loop"]
    /\ UNCHANGED notExportVars

\* run_max_validation 147.
CompareMtime ==
    /\ export.pc = "compare"
    /\ export' = [export EXCEPT
                    !.pc = IF export.current_mtime > export.start_mtime
                           THEN "reload" ELSE "loop"]
    /\ UNCHANGED notExportVars

\* run_max_validation 148-149 with _load_patch_json 175-182: the copy is
\* parsed again; FileNotFoundError is re-raised as it is, any other failure
\* becomes a ValidationError.  On return the `with` block is left.  `parsed`
\* keeps what was parsed.
ReloadCopy ==
    /\ export.pc = "reload"
    /\ export' =
         IF export.copy = "absent"
         THEN LeaveWith(export, "FileNotFoundError", "open")
         ELSE IF export.copy = "garbage"
         THEN LeaveWith(export, "ValidationError", "invalid patch JSON")
         ELSE CleanUp([export EXCEPT !.parsed = export.copy, !.pc = "return"])
    /\ UNCHANGED notExportVars

\* export_amxd_file 55-63.
ReturnResult ==
    /\ export.pc = "return"
    /\ export' = [export EXCEPT
                    !.result = Returned(<<export.validate>>),
                    !.pc = "done"]
    /\ UNCHANGED notExportVars

\* The class _run_command reports an exception of class cls under
\* (main.py 105-126).
ReportedClass(cls) ==
    CASE Classify(cls) = "taxonomy" -> cls
      [] Classify(cls) = "not_found" -> "UsageError"
      [] Classify(cls) = "shape" -> "ValidationError"
      [] OTHER -> "InternalError"

\* export_amxd_command 826-852 under _run_command: the invocation ends with
\* exit code 0, or with the code of the reported class.
ExportExit ==
    /\ export.pc = "done"
    /\ export' = [export EXCEPT
                    !.exit_code = IF export.result.ok THEN 0
                                  ELSE ExitCodeOf(ReportedClass(export.result.error)),
                    !.pc = "exited"]
    /\ UNCHANGED notExportVars

\* The steps of the loop and of what precedes it in PollForSignal.
PollingPcs ==
    {"baseline", "open_copy", "deadline", "loop", "sleep", "stat", "compare", "reload"}

LoopPcs == {"deadline", "loop", "sleep", "stat", "compare", "reload"}

\* The editor, once launched on the copy, saves it: the modification time
\* advances and the file holds what the editor wrote.  saved_at keeps the
\* clock reading of the first save, saved_as what the latest save wrote.
EditorSaves ==
    /\ export.pc \in LoopPcs
    /\ export.copy # "absent"
    /\ export.mtime < export.start_mtime + MaxSaves
    /\ \E content \in {"saved", "garbage"} :
         export' = [export EXCEPT !.copy = content, !.mtime = export.mtime + 1,
                                  !.saved_as = content,
                                  !.saved_at = IF export.saved_at = NotRead
                                               THEN export.clock
                                               ELSE export.saved_at]
    /\ UNCHANGED notExportVars

\* The editor or another process removes the copy.
CopyRemoved ==
    /\ export.pc \in PollingPcs
    /\ export.copy # "absent"
    /\ export' = [export EXCEPT !.copy = "absent", !.gone_at = export.pc]
    /\ UNCHANGED notExportVars

\* Time passes between two steps of the loop.
ClockAdvances ==
    /\ export.pc \in LoopPcs \ {"deadline"}
    /\ export.clock < MaxClock
    /\ export' = [export EXCEPT !.clock = export.clock + 1]
    /\ UNCHANGED notExportVars

ExportIdle == export = NoExport /\ app = NoApp

----------------------------------------------------------------------------
(* main: the arguments, the inferred command and the help report (main.py). *)

TokJson == <<"-", "-", "j", "s", "o", "n">>
TokHelp == <<"-", "-", "h", "e", "l", "p">>
TokShortHelp == <<"-", "h">>
TokConfig == <<"c", "o", "n", "f", "i", "g">>
TokSet == <<"s", "e", "t">>
TokUnknown == <<"A", "-", "x">>
TokSpaced == <<" ", "b">>
Dash == <<"-">>

\* _KNOWN_COMMANDS 46-57, the entries among the tokens used here.
KnownCommands == {CmdNew, CmdListObjects, TokConfig}

\* The argument lists main is run on.
ArgsPool ==
    {<<>>, <<TokJson>>, <<CmdNew>>, <<TokJson, CmdNew>>, <<CmdNew, TokJson>>,
     <<TokUnknown>>, <<TokJson, TokUnknown>>, <<TokJson, TokUnknown, CmdNew>>,
     <<TokJson, CmdListObjects>>, <<CmdListObjects>>,
     <<TokConfig, TokSet>>, <<TokJson, TokConfig, TokSet>>,
     <<TokJson, TokConfig>>, <<TokJson, TokConfig, TokUnknown>>,
     <<TokJson, TokHelp>>, <<TokJson, CmdNew, TokHelp>>,
     <<TokJson, TokShortHelp, TokConfig, TokSet>>,
     <<TokJson, TokUnknown, TokHelp>>, <<CmdNew, TokHelp>>,
     <<TokJson, TokSpaced>>, <<TokJson, TokSpaced, TokHelp>>}

InArgs(tok, args) == \E i \in 1..Len(args) : args[i] = tok

\* The first entry of args that does not start with "-", fallback if none.
RECURSIVE FirstNonOption(_, _)
FirstNonOption(args, fallback) ==
    IF args = <<>> THEN fallback
    ELSE IF StartsWith(Head(args), Dash) THEN FirstNonOption(Tail(args), fallback)
    ELSE Head(args)

\* _infer_command_from_args 155-163: the first loop, over the entries left.
RECURSIVE FirstKnownCommand(_)
FirstKnownCommand(args) ==
    IF args = <<>> THEN <<>>
    ELSE IF StartsWith(Head(args), Dash) THEN FirstKnownCommand(Tail(args))
    ELSE IF Head(args) \in KnownCommands
    THEN IF Head(args) = TokConfig
              /\ FirstNonOption(Tail(args), <<>>) # <<>>
         THEN TokConfig \o <<" ">> \o FirstNonOption(Tail(args), <<>>)
         ELSE Head(args)
    ELSE FirstKnownCommand(Tail(args))

\* A variant of InferCommandFromArgs that takes the first entry that is not an
\* option, known or not.
InferCommandFromArgs_FirstToken(args) == FirstNonOption(args, <<"cli">>)

\* _infer_command_from_args 154-169.
InferCommandFromArgs(args) ==
    IF FirstKnownCommand(args) # <<>> THEN FirstKnownCommand(args)
    ELSE FirstNonOption(args, <<"cli">>)

\* The name under which click runs a command for args: the first entry that
\* is not an option, with its subcommand for `config`; <<>> when click finds
\* no command to run there, or options of the group after it.
RegisteredName(args) ==
    IF FirstNonOption(args, <<>>) \notin KnownCommands THEN <<>>
    ELSE IF \E i, j \in 1..Len(args) :
               i < j /\ ~StartsWith(args[i], Dash) /\ args[j] = TokJson
    THEN <<>>
    ELSE IF FirstNonOption(args, <<>>) # TokConfig THEN FirstNonOption(args, <<>>)
    ELSE IF InferCommandFromArgs(args) = CmdConfigSet THEN CmdConfigSet
    ELSE <<>>

\* _json_help_response 192: the data schema of the help report.
HelpSchema(cmdname) ==
    <<"maxpylang.cli.">>
      \o ReplaceChar(ReplaceChar(cmdname, " ", "_"), "-", "_")
      \o <<".", "help", ".v1">>

HelpPayload(cmdname) ==
    [message |-> "help", data |-> "help", data_schema |-> HelpSchema(cmdname),
     warnings |-> <<>>, diagnostics |-> <<>>]

MainIdle == argv = <<>>

WantsJsonHelp ==
    json_output /\ (InArgs(TokHelp, argv) \/ InArgs(TokShortHelp, argv))

pipelineRest == <<json_output, payload, captured, diagnostics, exc_diag,
                  sys_exit, stderr>>

\* main 903-904 with _json_help_response 172-196: in structured mode with a
\* help flag, click renders the help (or fails on the arguments) under a
\* capture, and main emits the help report (or the error report) itself.
JsonHelpResponse ==
    /\ pc = "main"
    /\ WantsJsonHelp
    /\ command' = InferCommandFromArgs(argv)
    /\ \E outcome \in {"help", "ClickUsageError", "ClickException", "SystemExit"},
          msg \in Messages :
         /\ outcome # "help" \/ msg = "m1"
         /\ raised' = IF outcome \in {"ClickUsageError", "ClickException"}
                       THEN [cls |-> outcome, msg |-> msg, at |-> "parse"]
                       ELSE raised
         /\ IF outcome = "help"
            THEN /\ stdout' = Append(stdout, SuccessEnvelope(command', HelpPayload(command')))
                 /\ exit_status' = 0
            ELSE IF outcome = "SystemExit"
            THEN /\ stdout' = Append(stdout,
                                     ErrorEnvelope(command', "UsageError", msg, <<>>, 1))
                 /\ exit_status' = 1
            ELSE /\ stdout' = Append(stdout,
                                     ErrorEnvelope(command', "UsageError", msg, <<>>,
                                                   ExitCodeOf(outcome)))
                 /\ exit_status' = ExitCodeOf(outcome)
    /\ pc' = "done"
    /\ UNCHANGED <<pipelineRest, argv>>
    /\ UNCHANGED <<resolverVars, commandVars, remapVars, exportVars>>

\* A variant of ParseFails that reports under the name "cli".
ParseFails_Unnamed ==
    /\ pc = "main"
    /\ ~WantsJsonHelp
    /\ command' = <<"cli">>
    /\ \E msg \in Messages :
         raised' = [cls |-> "ClickUsageError", msg |-> msg, at |-> "parse"]
    /\ pc' = "main_except"
    /\ UNCHANGED <<json_output, payload, captured, diagnostics, exc_diag,
                   sys_exit, stdout, stderr, exit_status, argv>>
    /\ UNCHANGED <<resolverVars, commandVars, remapVars, exportVars>>

\* main 906-907 and 913-916: click rejects the arguments (a missing option, an
\* unknown command or option) with click.UsageError before any command runs;
\* main will report it under the command it infers from the arguments.
ParseFails ==
    /\ pc = "main"
    /\ ~WantsJsonHelp
    /\ command' = InferCommandFromArgs(argv)
    /\ \E msg \in Messages :
         raised' = [cls |-> "ClickUsageError", msg |-> msg, at |-> "parse"]
    /\ pc' = "main_except"
    /\ UNCHANGED <<json_output, payload, captured, diagnostics, exc_diag,
                   sys_exit, stdout, stderr, exit_status, argv>>
    /\ UNCHANGED <<resolverVars, commandVars, remapVars, exportVars>>

\* main 906-907: click runs the command named by the arguments, whose
\* function calls _run_command with the registered name.
Dispatch ==
    /\ pc = "main"
    /\ ~WantsJsonHelp
    /\ RegisteredName(argv) # <<>>
    /\ command' = RegisteredName(argv)
    /\ pc' = "start"
    /\ UNCHANGED <<json_output, raised, payload, captured, diagnostics, exc_diag,
                   sys_exit, stdout, stderr, exit_status, argv>>
    /\ UNCHANGED <<resolverVars, commandVars, remapVars, exportVars>>

----------------------------------------------------------------------------
(* Specifications.                                                         *)


\* One invocation of a command through main and _run_command.
InitPipeline == PipelineInit /\ ResolverIdle /\ CommandIdle /\ RemapIdle /\ ExportIdle /\ MainIdle

NextPipeline ==
    \/ ParseArgsFail
    \/ RunAction
    \/ EmitSuccess
    \/ ReturnZero
    \/ HandleTaxonomy
    \/ HandleNotFound
    \/ HandleShape
    \/ HandleClick
    \/ HandleOther
    \/ MainClickException
    \/ Terminate

SpecPipeline == InitPipeline /\ [][NextPipeline]_vars

\* One run of main on an argument list.
InitMain ==
    /\ argv \in ArgsPool
    /\ json_output = InArgs(TokJson, argv)
    /\ command = <<>>
    /\ pc = "main"
    /\ raised = NoException
    /\ payload = EmptyPayload
    /\ captured = <<>>
    /\ diagnostics = <<>>
    /\ exc_diag = <<>>
    /\ sys_exit = NotExited
    /\ stdout = <<>>
    /\ stderr = <<>>
    /\ exit_status = NotExited
    /\ ResolverIdle /\ CommandIdle /\ RemapIdle /\ ExportIdle

NextMain ==
    \/ JsonHelpResponse \/ ParseFails \/ Dispatch
    \/ RunAction \/ EmitSuccess \/ ReturnZero
    \/ HandleTaxonomy \/ HandleNotFound \/ HandleShape \/ HandleClick
    \/ HandleOther \/ MainClickException \/ Terminate

SpecMain == InitMain /\ [][NextMain]_vars

\* resolve_selector on every patch and selector of the pools.
InitSelector ==
    /\ patch \in {[objs |-> o, lines |-> <<>>] : o \in SelectorPatches}
    /\ call = NoCall
    /\ result = NoResult
    /\ PipelineIdle /\ CommandIdle /\ RemapIdle /\ ExportIdle /\ MainIdle

NextSelector == CallResolveSelector

SpecSelector == InitSelector /\ [][NextSelector]_vars

\* resolve_outlet / resolve_inlet on parsed endpoints.
InitPorts ==
    /\ patch \in {[objs |-> o, lines |-> <<>>] : o \in PortPatches}
    /\ call = NoCall
    /\ result = NoResult
    /\ PipelineIdle /\ CommandIdle /\ RemapIdle /\ ExportIdle /\ MainIdle

NextPorts == CallResolveOutlet \/ CallResolveInlet

SpecPorts == InitPorts /\ [][NextPorts]_vars

\* parse_endpoint and parse_edge on texts.
InitParse == ResolverIdle /\ PipelineIdle /\ CommandIdle /\ RemapIdle /\ ExportIdle /\ MainIdle

NextParse == CallParseEndpoint \/ CallParseEdge

SpecParse == InitParse /\ [][NextParse]_vars

\* One run of the connect or delete action.
InitConnect ==
    /\ cmd \in ConnectInvocations \cup DeleteInvocations
    /\ ResolverIdle /\ PipelineIdle /\ RemapIdle /\ ExportIdle /\ MainIdle

NextConnect ==
    \/ ConnectCheckArgs
    \/ DeleteCheckArgs
    \/ LoadPatch
    \/ ResolveOutputPath
    \/ ParseNext
    \/ ResolveSource
    \/ ResolveDestination
    \/ ConnectMutate
    \/ DeleteMutate
    \/ FinalizeMutation

SpecConnect == InitConnect /\ [][NextConnect]_vars

\* One run of the action of a command that writes a file.
InitFiles ==
    /\ cmd \in ConnectInvocations \cup DeleteInvocations \cup NewInvocations
               \cup LoadingInvocations \cup ReplaceInvocations
    /\ ResolverIdle /\ PipelineIdle /\ RemapIdle /\ ExportIdle /\ MainIdle

NextFiles ==
    \/ NextConnect
    \/ NewPatch
    \/ PlaceMutate
    \/ ReplaceMutate
    \/ NewOrSaveWrite
    \/ ExportAmxd

SpecFiles == InitFiles /\ [][NextFiles]_vars

\* _build_helper_id_map on every box list and helper fragment of the pools.
InitRemap ==
    /\ remap \in
         {[NoRemap EXCEPT !.pc = "start", !.boxes = bs, !.existing = bs,
                          !.helper_boxes = hs,
                          !.helper_texts = [j \in 1..Len(hs) |-> NoneText]] :
             bs \in SeqsUpTo(BoxIdPool, MaxBoxes),
             hs \in SeqsUpTo(HelperIdPool, MaxHelpers)}
    /\ ResolverIdle /\ PipelineIdle /\ CommandIdle /\ ExportIdle /\ MainIdle

NextRemap == CallBuildHelperIdMap \/ InjectHelperBoxes

SpecRemap == InitRemap /\ [][NextRemap]_vars

\* Identifiers of the boxes of the patch the helper is injected into.
InjectBoxIdPool ==
    {StrId(ObjDash \o <<"1">>), StrId(<<"h">>), OtherId}

\* _inject_validation_helper on a validation copy.
InitInject ==
    /\ remap \in
         {[NoRemap EXCEPT !.pc = "entry", !.boxes = bs, !.existing = bs,
                          !.helper_boxes = hs, !.helper_texts = ts,
                          !.path = p, !.shape = sh] :
             bs \in SeqsUpTo(InjectBoxIdPool, MaxBoxes),
             hs \in SeqsUpTo(HelperIdPool, MaxHelpers),
             ts \in SeqsUpTo(HelperTextPool, MaxHelpers),
             p \in ValidationPathPool,
             sh \in InjectionShapes}
    /\ Len(remap.helper_texts) = Len(remap.helper_boxes)
    /\ ResolverIdle /\ PipelineIdle /\ CommandIdle /\ ExportIdle /\ MainIdle

NextInject == EnterInjection \/ CallBuildHelperIdMap \/ InjectHelperBoxes

SpecInject == InitInject /\ [][NextInject]_vars

\* resolve_max_app_path on a configured path and a disk.
InitMaxApp ==
    /\ app \in {[NoApp EXCEPT !.pc = "start", !.configured = c, !.disk = d] :
                   c \in ConfiguredPool, d \in DiskPool}
    /\ export = NoExport /\ MainIdle
    /\ ResolverIdle /\ PipelineIdle /\ CommandIdle /\ RemapIdle

NextMaxApp ==
    BuildCandidates \/ NormalizeCandidate \/ TestCandidate \/ MaxAppNotFound

SpecMaxApp == InitMaxApp /\ [][NextMaxApp]_vars

\* One invocation of export-amxd, with the editor, the clock and the other
\* processes of the machine.
InitExport ==
    /\ export \in {ExportStart(e) : e \in ExportInputs}
    /\ app = NoApp /\ MainIdle
    /\ ResolverIdle /\ PipelineIdle /\ CommandIdle /\ RemapIdle

ToolStep ==
    \/ NormalizeAmxdPath \/ CheckOverwrite \/ WriteExport
    \/ ResolveValidationTimeout \/ ResolveApp \/ CheckPlatform \/ OpenExport
    \/ MakeTemporaryDirectory \/ CloneForValidation \/ PrepareValidationFile
    \/ RecordBaseline \/ OpenValidationCopy \/ SetDeadline \/ LoopTest
    \/ Sleep \/ StatCopy \/ CompareMtime \/ ReloadCopy \/ ReturnResult
    \/ ExportExit

NextExport == ToolStep \/ EditorSaves \/ CopyRemoved \/ ClockAdvances

SpecExport == InitExport /\ [][NextExport]_vars

\* The same, where the tool is not stopped for ever: a step of the tool that
\* can be taken is taken.
SpecExportFair == InitExport /\ [][NextExport]_vars /\ WF_vars(ToolStep)

----------------------------------------------------------------------------
(* Claims about the command pipeline.                                      *)

TaxonomyClasses ==
    {"MaxPyCLIError", "UsageError", "ObjectResolutionError", "ValidationError",
     "InternalError"}

ClickClasses == {"ClickException", "ClickUsageError"}

\* The invocation ended after _run_command took the action's outcome cls.
EndedOn(cls) == pc = "done" /\ raised.at # "parse" /\ raised.cls = cls

\* The last report is an error report of the given kind and code, and the
\* process ended with that code.
ReportedAs(kind, code) ==
    /\ exit_status = code
    /\ stdout # <<>>
    /\ ~stdout[Len(stdout)].ok
    /\ stdout[Len(stdout)].errors[1].type = kind
    /\ stdout[Len(stdout)].errors[1].exit_code = code

\* The part of C1 that does not depend on what "every other exception" covers.
C1_Named ==
    /\ EndedOn("none") => exit_status = 0
    /\ EndedOn("UsageError") => ReportedAs("UsageError", 2)
    /\ EndedOn("ObjectResolutionError") => ReportedAs("ObjectResolutionError", 3)
    /\ EndedOn("ValidationError") => ReportedAs("ValidationError", 4)
    /\ EndedOn("InternalError") => ReportedAs("InternalError", 5)
    /\ EndedOn("MaxPyCLIError") => ReportedAs("MaxPyCLIError", 5)
    /\ \A c \in {"FileNotFoundError", "IsADirectoryError"} :
         EndedOn(c) => ReportedAs("UsageError", 2)
    /\ \A c \in {"AssertionError", "ValueError", "JSONDecodeError", "TypeError",
                 "KeyError"} :
         EndedOn(c) => ReportedAs("ValidationError", 4)

C1_NamedClasses ==
    TaxonomyClasses
      \cup {"FileNotFoundError", "IsADirectoryError", "AssertionError",
            "ValueError", "JSONDecodeError", "TypeError", "KeyError"}

\* C1 as stated: the exit status of an invocation that ran through
\* _run_command is 0 without an exception, the error's own code for a taxonomy
\* error, 2 (UsageError) for FileNotFoundError / IsADirectoryError, 4
\* (ValidationError) for AssertionError / ValueError / TypeError / KeyError,
\* and 5 (InternalError) for every other exception.
C1_EveryOtherIsInternal ==
    /\ C1_Named
    /\ \A c \in RaisableClasses \ C1_NamedClasses :
         EndedOn(c) => ReportedAs("InternalError", 5)

\* C1 amended: as C1, but "every other exception" excludes click's
\* exceptions: _run_command re-raises a click.ClickException unreported, and
\* the process ends with click's own exit code, never reported as
\* InternalError.
C1_ExitStatusByRaisedCondition ==
    /\ C1_Named
    /\ \A c \in RaisableClasses \ (C1_NamedClasses \cup ClickClasses) :
         EndedOn(c) => ReportedAs("InternalError", 5)
    /\ \A c \in ClickClasses :
         EndedOn(c) =>
            /\ exit_status = ExitCodeOf(c)
            /\ \A i \in 1..Len(stdout) :
                 stdout[i].errors[1].type # "InternalError"

C1_Witness ==
    /\ EndedOn("KeyError") /\ ReportedAs("ValidationError", 4)

\* C2: every emitted report has, when ok, no error descriptor and the process
\* exits 0; when not ok, exactly one descriptor {type, message, exit_code},
\* data_schema null, data null, and the descriptor's exit_code is the status
\* the process ends with.
C2_EnvelopeMatchesExit ==
    \A i \in 1..Len(stdout) :
        LET e == stdout[i]
        IN  /\ e.ok =>
                /\ e.errors = <<>>
                /\ sys_exit = NotExited
                /\ pc = "done" => exit_status = 0
            /\ ~e.ok =>
                /\ Len(e.errors) = 1
                /\ DOMAIN e.errors[1] = {"type", "message", "exit_code"}
                /\ e.data_schema = NoneText
                /\ e.data = None
                /\ sys_exit = e.errors[1].exit_code
                /\ pc = "done" => exit_status = e.errors[1].exit_code

C2_Witness ==
    /\ pc = "done"
    /\ Len(stdout) = 1
    /\ ~stdout[1].ok
    /\ raised.cls = "FileNotFoundError"
    /\ exit_status = 2

\* A non-zero termination, under way or done.
NonZeroExit ==
    \/ sys_exit \notin {NotExited, 0}
    \/ exit_status \notin {NotExited, 0}

----------------------------------------------------------------------------
(* Claims about the resolver.                                              *)

\* The object of the patch stored under key.
ObjectAt(key) ==
    patch.objs[CHOOSE i \in 1..Len(patch.objs) : patch.objs[i].label = key]

IsKey(key) == \E i \in 1..Len(patch.objs) : patch.objs[i].label = key

ResolvedTo(key) ==
    /\ result.ok
    /\ result.val.label = key
    /\ result.val.obj = ObjectAt(key)

\* C4 as stated: a non-empty selector that exactly equals an existing
\* identifier resolves to that identifier and its object, whatever the
\* aliases of the other objects.
C4_ExactIdentifierWins ==
    (call.fn = "resolve_selector" /\ call.text # <<>> /\ IsKey(call.text))
       => ResolvedTo(call.text)

\* C4 amended: a selector whose text, trimmed of surrounding whitespace, is
\* non-empty and equals an existing identifier resolves to that identifier and
\* its object, whatever the aliases of the other objects.
C4_IdentifierWins ==
    (call.fn = "resolve_selector" /\ Strip(call.text) # <<>>
        /\ IsKey(Strip(call.text)))
       => ResolvedTo(Strip(call.text))

\* An identifier match wins over another object's alias of the same text.
C4_Witness ==
    /\ call.fn = "resolve_selector"
    /\ call.text = <<"a">>
    /\ \E i \in 1..Len(patch.objs) :
         patch.objs[i].varname = <<"a">> /\ patch.objs[i].label # <<"a">>
    /\ ResolvedTo(<<"a">>)

\* The objects of the patch whose alias is a, in the mapping's order.
WithAlias(a) == SelectSeq(patch.objs, LAMBDA o : o.varname = a)

\* The outcome C5 gives a lookup of alias a.
AliasOutcome(a) ==
    /\ Len(WithAlias(a)) = 1 =>
          /\ result.ok
          /\ result.val.label = WithAlias(a)[1].label
          /\ result.val.obj = WithAlias(a)[1]
    /\ Len(WithAlias(a)) = 0 =>
          /\ ~result.ok
          /\ result.error = "ObjectResolutionError"
          /\ result.why \in {"alias not found", "object not found"}
    /\ Len(WithAlias(a)) >= 2 =>
          /\ ~result.ok
          /\ result.error = "ObjectResolutionError"
          /\ result.why = "ambiguous"
          /\ result.val =
               <<a>> \o [i \in 1..Len(WithAlias(a)) |-> WithAlias(a)[i].label]

AliasStrings == {<<"a">>, <<" ", "a">>, <<"b">>, ObjDash \o <<"2">>}

\* C5 as stated: for every alias string, given bare or as @alias:<name> (and
\* not itself an identifier), resolution succeeds with the one object that has
\* the alias, fails "not found" when none has it and fails "ambiguous", naming
\* every match in mapping order, when several have it.
C5_EveryAliasString ==
    \A a \in AliasStrings :
        (call.fn = "resolve_selector" /\ call.text \in {a, AtAlias \o a}
            /\ ~IsKey(call.text))
           => AliasOutcome(a)

\* C5 amended: the same, for the selectors resolve_selector looks up as an
\* alias: the trimmed selector is not an identifier and is either
\* "@alias:<name>" with a non-empty trimmed name, which is the alias, or a bare
\* token that does not start with "obj-", which is the alias itself.  A bare
\* token that starts with "obj-" and is not an identifier fails "object not
\* found" whatever the aliases of the patch.
C5_AliasLookup ==
    LET sel == Strip(call.text)
        explicit == StartsWith(sel, AtAlias)
        name == Strip(Slice(sel, Len(AtAlias) + 1, Len(sel)))
    IN  (call.fn = "resolve_selector" /\ sel # <<>> /\ ~IsKey(sel)) =>
           /\ (explicit /\ name # <<>>) => AliasOutcome(name)
           /\ (~explicit /\ ~StartsWith(sel, ObjDash)) => AliasOutcome(sel)
           /\ (~explicit /\ StartsWith(sel, ObjDash)) =>
                 /\ ~result.ok
                 /\ result.error = "ObjectResolutionError"
                 /\ result.why = "object not found"

\* Three objects share the alias and the error names them in order.
C5_Witness ==
    /\ call.fn = "resolve_selector"
    /\ call.text = AtAlias \o <<"a">>
    /\ ~IsKey(call.text)
    /\ Len(WithAlias(<<"a">>)) = 3
    /\ result.why = "ambiguous"
    /\ Len(result.val) = 4

\* The position of the last colon of t.
LastColon(t) ==
    CHOOSE k \in 1..Len(t) :
        t[k] = ":" /\ \A j \in (k + 1)..Len(t) : t[j] # ":"

UsageErrorNaming(t) ==
    /\ ~result.ok
    /\ result.error = "UsageError"
    /\ result.val = <<t>>

\* C6 as stated: parse_edge of "<s>:<i>-><d>:<j>" returns (s, i, d, j) for all
\* selectors s, d non-empty after trimming (s without "->") and i, j >= 0;
\* every input without "->" fails with UsageError.
C6_EdgeRoundTripVerbatim ==
    call.fn = "parse_edge" =>
       /\ \A s \in EdgeSources, d \in EdgeDestinations,
             i \in {0, 1, MaxIndex}, j \in {0, MaxIndex} :
             call.text = EdgeText(s, i, d, j) =>
                /\ result.ok
                /\ result.val = [src_selector |-> s, src_index |-> i,
                                 dst_selector |-> d, dst_index |-> j]
       /\ (\A k \in 1..(Len(call.text) - 1) :
              ~(call.text[k] = "-" /\ call.text[k + 1] = ">"))
             => (~result.ok /\ result.error = "UsageError")

\* C6 amended: parse_edge of "<s>:<i>-><d>:<j>" returns (s', i, d', j) where
\* s' and d' are s and d trimmed of surrounding whitespace; every input
\* without "->" fails with UsageError.
C6_EdgeRoundTrip ==
    call.fn = "parse_edge" =>
       /\ \A s \in EdgeSources, d \in EdgeDestinations,
             i \in {0, 1, MaxIndex}, j \in {0, MaxIndex} :
             call.text = EdgeText(s, i, d, j) =>
                /\ result.ok
                /\ result.val = [src_selector |-> Strip(s), src_index |-> i,
                                 dst_selector |-> Strip(d), dst_index |-> j]
       /\ (\A k \in 1..(Len(call.text) - 1) :
              ~(call.text[k] = "-" /\ call.text[k + 1] = ">"))
             => (~result.ok /\ result.error = "UsageError")

\* An edge whose destination selector itself holds an arrow.
C6_Witness ==
    /\ call.fn = "parse_edge"
    /\ call.text = EdgeText(<<"a">>, MaxIndex, <<"b", "-", ">", "c">>, 0)
    /\ result.ok
    /\ result.val.dst_selector = <<"b", "-", ">", "c">>
    /\ result.val.src_index = MaxIndex

\* C7: parse_endpoint splits at the last colon, keeping a selector with colons
\* whole ("@alias:osc:2" gives "@alias:osc" and 2); it fails with UsageError
\* naming the endpoint text when there is no colon, when the selector side is
\* empty after trimming, when the index side is not an integer and when the
\* index is negative; a returned index is never negative.
C7_EndpointSplitsAtLastColon ==
    call.fn = "parse_endpoint" =>
       LET t == call.text
           left == Slice(t, 1, LastColon(t) - 1)
           right == Slice(t, LastColon(t) + 1, Len(t))
       IN  /\ (\A k \in 1..Len(t) : t[k] # ":") => UsageErrorNaming(t)
           /\ (\E k \in 1..Len(t) : t[k] = ":") =>
                 IF Strip(left) = <<>> \/ ~IntParses(right)
                 THEN UsageErrorNaming(t)
                 ELSE IF IntValue(right) < 0
                 THEN UsageErrorNaming(t)
                 ELSE /\ result.ok
                      /\ result.val.selector = Strip(left)
                      /\ result.val.index = IntValue(right)
           /\ result.ok => result.val.index >= 0
           /\ t = AliasOscTwo =>
                 /\ result.ok
                 /\ result.val.selector = AtAlias \o <<"o", "s", "c">>
                 /\ result.val.index = 2

C7_Witness ==
    /\ call.fn = "parse_endpoint"
    /\ call.text = AliasOscTwo
    /\ result.ok
    /\ result.val.index = 2

\* The port list of the given direction of the object the selector of the
\* call resolves to.
ResolvedPorts ==
    LET o == ResolveSelector(patch.objs, call.selector).val.obj
    IN  IF call.fn = "resolve_outlet" THEN o.outs ELSE o.ins

\* C8: resolve_outlet / resolve_inlet with an index equal to or greater than
\* the resolved object's outlet / inlet count fail with
\* ObjectResolutionError reporting the index, the resolved identifier and the
\* exact count; when they succeed the port returned is the one at the
\* requested index, which is within the object's port-count bounds.
C8_PortIndexInBounds ==
    (call.fn \in {"resolve_outlet", "resolve_inlet"}
        /\ ResolveSelector(patch.objs, call.selector).ok) =>
       LET label == ResolveSelector(patch.objs, call.selector).val.label
           dir == IF call.fn = "resolve_outlet" THEN "out" ELSE "in"
       IN  /\ call.index >= Len(ResolvedPorts) =>
                 /\ ~result.ok
                 /\ result.error = "ObjectResolutionError"
                 /\ result.why = "index out of range"
                 /\ result.val = [index |-> call.index, label |-> label,
                                  dir |-> dir, count |-> Len(ResolvedPorts)]
           /\ result.ok =>
                 /\ 0 <= call.index /\ call.index < Len(ResolvedPorts)
                 /\ result.val.label = label
                 /\ result.val.port =
                      [owner |-> label, dir |-> dir, index |-> call.index]

\* An index equal to the outlet count is refused.
C8_Witness ==
    /\ call.fn = "resolve_outlet"
    /\ ResolveSelector(patch.objs, call.selector).ok
    /\ Len(ResolvedPorts) = 2
    /\ call.index = 2
    /\ result.error = "ObjectResolutionError"

----------------------------------------------------------------------------
(* Claims about the connect and delete commands.                           *)

\* Some --edge, --from/--to or --obj reference of the command line does not
\* parse or does not resolve in the patch stored at --in.
SomeReferenceFails ==
    /\ cmd.name \in {"connect", "delete"}
    /\ Len(cmd.froms) = Len(cmd.tos)
    /\ \E k \in 1..Len(References(cmd)) :
          ~Resolution(InputPatch.objs, References(cmd)[k]).ok

\* The engine was not asked to connect, delete or save, the patch in memory
\* is as loaded, and no file on disk has been written.
NothingApplied ==
    /\ Range(cmd.engine) \subseteq {"load"}
    /\ patch \in {NotLoaded, InputPatch}
    /\ cmd.disk.out = MissingFile
    /\ cmd.disk.in \in InputFiles

\* The ports every edge and pair of the command line resolves to, in order.
AllConnections ==
    LET refs == SelectSeq(References(cmd), LAMBDA ref : ref.kind # "obj")
    IN  [k \in 1..Len(refs) |-> Resolution(InputPatch.objs, refs[k]).val]

\* C9: in connect and delete, if any one of the --edge / --from / --to / --obj
\* references fails to parse or resolve, patch.connect / patch.delete is never
\* called, the patch is not saved and the output file is not written; when
\* the mutation is applied, every reference has been parsed and resolved.
C9_ResolveBeforeMutate ==
    /\ SomeReferenceFails => NothingApplied
    /\ (cmd.name \in {"connect", "delete"}
          /\ Range(cmd.engine) \cap {"connect", "delete"} # {}) =>
          /\ ~SomeReferenceFails
          /\ cmd.i > Len(References(cmd))
          /\ cmd.connections = AllConnections

\* A connect whose first edge resolved and whose later reference did not.
C9_Witness ==
    /\ cmd.name = "connect"
    /\ cmd.pc = "failed"
    /\ cmd.error = "ObjectResolutionError"
    /\ Len(cmd.connections) >= 1
    /\ SomeReferenceFails
    /\ NothingApplied

----------------------------------------------------------------------------
(* Claims about the ID remapper.                                           *)

\* The build of the map has been made.
Mapped == remap.pc \in {"mapped", "injected", "failed"}

\* The text after "obj-".
Suffix(t) == Slice(t, Len(ObjDash) + 1, Len(t))

\* The numeric suffixes of the existing identifiers "obj-<n>", n a run of
\* digits.
WellFormedSuffixes ==
    {DigitsValue(Suffix(remap.existing[i].text)) :
        i \in {j \in 1..Len(remap.existing) :
                 /\ remap.existing[j].kind = "str"
                 /\ StartsWith(remap.existing[j].text, ObjDash)
                 /\ AllDigits(Suffix(remap.existing[j].text))}}

\* The suffixes int() accepts: a run of digits with an optional sign and
\* surrounding whitespace.
AcceptedSuffixes ==
    {IntValue(Suffix(remap.existing[i].text)) :
        i \in {j \in 1..Len(remap.existing) :
                 /\ remap.existing[j].kind = "str"
                 /\ StartsWith(remap.existing[j].text, ObjDash)
                 /\ IntParses(Suffix(remap.existing[j].text))}}

ExistingIds ==
    {remap.existing[i].text :
        i \in {j \in 1..Len(remap.existing) : remap.existing[j].kind = "str"}}

\* The map holds, in the fragment's order, one entry per helper box: the
\* j-th helper identifier goes to obj-(m+j).
MapsInOrderFrom(m) ==
    /\ remap.result.ok
    /\ Len(remap.result.val) = Len(remap.helper_boxes)
    /\ \A j \in 1..Len(remap.helper_boxes) :
          /\ remap.result.val[j].key = remap.helper_boxes[j].text
          /\ remap.result.val[j].value = ObjDash \o IntToStr(m + j)
    /\ \A i, j \in 1..Len(remap.result.val) :
          remap.result.val[i].value = remap.result.val[j].value => i = j
    /\ \A j \in 1..Len(remap.result.val) :
          remap.result.val[j].value \notin ExistingIds

\* C10 as stated: for any existing box list with maximum well-formed suffix m
\* and any helper fragment of k boxes, the map assigns exactly k distinct
\* fresh identifiers obj-(m+1) ... obj-(m+k) in the fragment's order, none
\* equal to an existing identifier.
C10_FreshForAnyFragment ==
    Mapped => MapsInOrderFrom(SetMax(WellFormedSuffixes \cup {0}))

HelperIdsAreStrings ==
    \A j \in 1..Len(remap.helper_boxes) : remap.helper_boxes[j].kind = "str"

HelperIdsDistinct ==
    \A i, j \in 1..Len(remap.helper_boxes) :
        remap.helper_boxes[i] = remap.helper_boxes[j] => i = j

BoxesAreObjects ==
    \A i \in 1..Len(remap.existing) : remap.existing[i].kind # "malformed"

\* The last place of identifier h in the helper fragment.
LastPlace(h) ==
    SetMax({j \in 1..Len(remap.helper_boxes) : remap.helper_boxes[j].text = h})

\* C10 amended: with m the greatest of 0 and the suffixes that int() accepts
\* among the existing string identifiers starting with "obj-" (leading zeros,
\* a sign and surrounding whitespace included), and a helper fragment of k
\* boxes whose identifiers are all strings, the map sends each helper
\* identifier to obj-(m+j), j its last place in the fragment; the assigned
\* identifiers are distinct and none equals an existing identifier; when the
\* helper identifiers are pairwise distinct these are exactly k identifiers
\* obj-(m+1) ... obj-(m+k) in the fragment's order, and when an identifier
\* repeats the map has fewer than k entries.  A helper identifier that is not
\* a string makes the build fail with ValidationError.
C10_FreshIdsAsComputed ==
    (Mapped /\ BoxesAreObjects) =>
       LET m == SetMax(AcceptedSuffixes \cup {0})
           id_map == remap.result.val
       IN  /\ ~HelperIdsAreStrings =>
                 /\ ~remap.result.ok
                 /\ remap.result.error = "ValidationError"
           /\ HelperIdsAreStrings =>
                 /\ remap.result.ok
                 /\ {id_map[j].key : j \in 1..Len(id_map)} =
                       {remap.helper_boxes[j].text :
                           j \in 1..Len(remap.helper_boxes)}
                 /\ \A j \in 1..Len(id_map) :
                       /\ id_map[j].value =
                            ObjDash \o IntToStr(m + LastPlace(id_map[j].key))
                       /\ id_map[j].value \notin ExistingIds
                 /\ \A i, j \in 1..Len(id_map) :
                       (id_map[i].key = id_map[j].key
                          \/ id_map[i].value = id_map[j].value) => i = j
                 /\ HelperIdsDistinct => MapsInOrderFrom(m)
                 /\ ~HelperIdsDistinct =>
                       Len(id_map) < Len(remap.helper_boxes)

\* Existing obj-9 and obj-10, two helper boxes: they become obj-11 and obj-12.
C10_Witness ==
    /\ remap.pc = "injected"
    /\ remap.existing =
          <<StrId(ObjDash \o <<"9">>), StrId(ObjDash \o <<"1", "0">>)>>
    /\ remap.helper_boxes = <<StrId(ObjDash \o <<"1">>), StrId(<<"h">>)>>
    /\ remap.result.ok
    /\ remap.result.val[1].value = ObjDash \o <<"1", "1">>
    /\ remap.result.val[2].value = ObjDash \o <<"1", "2">>
    /\ remap.boxes[3] = StrId(ObjDash \o <<"1", "1">>)

----------------------------------------------------------------------------
(* Claims about the helper injection.                                      *)

PairwiseDistinct(s) == \A i, j \in 1..Len(s) : s[i] = s[j] => i = j

\* Every injected box is hidden and the texts other than "write" are kept.
HiddenAndOthersKept ==
    \A j \in 1..Len(remap.injected) :
        /\ remap.injected[j].hidden = 1
        /\ remap.helper_texts[j] # WriteLiteral =>
              remap.injected[j].text = remap.helper_texts[j]

\* C11 as stated: after the injection into a patch whose box identifiers are
\* pairwise distinct, all box identifiers are pairwise distinct, every
\* injected box is hidden, and exactly the helper box whose text is "write"
\* has the text 'write "<validation path>"'.
C11_InjectionKeepsIdsDistinct ==
    (remap.pc = "injected" /\ PairwiseDistinct(remap.existing)) =>
       /\ PairwiseDistinct(remap.boxes)
       /\ HiddenAndOthersKept
       /\ \A j \in 1..Len(remap.injected) :
             remap.helper_texts[j] = WriteLiteral =>
                remap.injected[j].text =
                   WriteSpace \o <<"\"">> \o remap.path \o <<"\"">>

\* The path with a backslash before each of its backslashes and double quotes.
RECURSIVE Backslashed(_)
Backslashed(path) ==
    IF path = <<>> THEN <<>>
    ELSE (IF Head(path) \in {"\\", "\""} THEN <<"\\", Head(path)>>
          ELSE <<Head(path)>>) \o Backslashed(Tail(path))

\* C11 amended: the same when the helper fragment's box identifiers are
\* pairwise distinct too, the text of the "write" box being
\* 'write "<validation path>"' with a backslash before each backslash and
\* double quote of the path.
C11_InjectionDistinctAndEscaped ==
    (remap.pc = "injected" /\ PairwiseDistinct(remap.existing)
        /\ PairwiseDistinct(remap.helper_boxes)) =>
       /\ PairwiseDistinct(remap.boxes)
       /\ Len(remap.boxes) = Len(remap.existing) + Len(remap.helper_boxes)
       /\ \A j \in 1..Len(remap.injected) :
             remap.boxes[Len(remap.existing) + j] = remap.injected[j].id
       /\ HiddenAndOthersKept
       /\ \A j \in 1..Len(remap.injected) :
             remap.helper_texts[j] = WriteLiteral =>
                remap.injected[j].text =
                   WriteSpace \o <<"\"">> \o Backslashed(remap.path)
                      \o <<"\"">>

\* A helper box named like an existing box is renamed, and the "write" box
\* takes a path with a double quote in it.
C11_Witness ==
    /\ remap.pc = "injected"
    /\ remap.existing = <<StrId(ObjDash \o <<"1">>), StrId(<<"h">>)>>
    /\ remap.helper_boxes = <<StrId(ObjDash \o <<"1">>), StrId(<<"h">>)>>
    /\ remap.helper_texts = <<WriteLiteral, WriteSpace>>
    /\ remap.path = <<"/", "\"", "\\">>
    /\ PairwiseDistinct(remap.boxes)
    /\ remap.injected[1].id = StrId(ObjDash \o <<"2">>)
    /\ remap.injected[1].text # WriteLiteral

----------------------------------------------------------------------------
(* Claims about export and validation.                                     *)

ExportRaised(cls) == ~export.result.ok /\ export.result.error = cls

ExportEnded == export.pc \in {"done", "exited"}

\* C12: export_amxd_file checks its preconditions before it touches the
\* filesystem.  Once the extension check has run on a path whose suffix is not
\* .amxd in any letter case, the call has failed with UsageError and has
\* written, created and launched nothing; once the overwrite check has run on
\* an output path that exists while overwrite is off, the call has failed with
\* UsageError and the path holds what it held before; and with overwrite on,
\* once the write has run on an existing file, the path holds the
\* serialization of the patch.
C12_PreconditionsBeforeWrites ==
    /\ (export.pc \notin {"idle", "start"} /\ Lower(export.suffix) # SuffixAmxd)
         => /\ ExportEnded /\ ExportRaised("UsageError")
            /\ export.writes = <<>> /\ export.created = {}
            /\ export.out = export.before /\ ~export.tmp
    /\ (export.pc \notin {"idle", "start", "exists"}
           /\ Lower(export.suffix) = SuffixAmxd
           /\ export.before # "absent" /\ ~export.overwrite)
         => /\ ExportEnded /\ ExportRaised("UsageError")
            /\ export.writes = <<>> /\ export.created = {}
            /\ export.out = export.before
    /\ (export.pc \notin {"idle", "start", "exists", "write"}
           /\ Lower(export.suffix) = SuffixAmxd
           /\ export.before = "old" /\ export.overwrite)
         => export.out = "doc" /\ export.writes # <<>>

C12_Witness ==
    /\ export.pc = "done" /\ export.before = "old" /\ ~export.overwrite
    /\ ExportRaised("UsageError") /\ export.out = "old"
    /\ Lower(export.suffix) = SuffixAmxd /\ export.suffix # SuffixAmxd

\* C13: the delivered export is never touched by helper injection.  From the
\* end of WriteExport on, whatever the outcome, the output path holds the
\* serialization of the patch without the helper, the write of the export is
\* the only write to the output path, and every later write of the tool goes
\* to the validation copy.
C13_ExportUntouchedByInjection ==
    export.writes # <<>> =>
        /\ export.out = "doc"
        /\ export.writes[1] = "out"
        /\ \A k \in 2..Len(export.writes) : export.writes[k] = "copy"

C13_Witness ==
    /\ export.pc = "done" /\ export.result = Returned(<<TRUE>>)
    /\ export.writes = <<"out", "copy", "copy">> /\ export.out = "doc"

\* C14: temporary validation files are removed on every exit path of
\* run_max_validation.  Once the function has returned or raised, whether
\* validated, timed out, copy missing, launch failed, injection failed or
\* re-parse failed, neither the temporary directory nor the validation copy
\* exists.
C14_TemporaryFilesRemoved ==
    export.pc \in {"return", "done", "exited"} =>
        ~export.tmp /\ export.copy = "absent"

C14_Witness ==
    /\ export.pc = "done" /\ "tmp" \in export.created /\ "copy" \in export.created
    /\ ExportRaised("ValidationError") /\ export.checks > 0
    /\ export.clock >= export.deadline
    /\ ~export.tmp /\ export.copy = "absent" /\ export.gone_at = "none"

TimedOut ==
    /\ ExportRaised("ValidationError")
    /\ export.result.why = "timed out waiting for Max to write validation file"

\* The loop was entered, the copy was never saved past its baseline and was
\* never removed.
NeverAdvanced ==
    /\ export.first_test # NotRead
    /\ export.mtime <= export.start_mtime
    /\ export.gone_at = "none"

\* C15 as stated: a session whose copy never advances ends with the timeout
\* error, not before the deadline, and after at least one check of the
\* modification time.
C15_TimeoutAfterOneCheck ==
    /\ (ExportEnded /\ NeverAdvanced) => TimedOut
    /\ TimedOut => export.clock >= export.deadline /\ export.checks >= 1

C15_TimeoutSafety ==
    /\ (ExportEnded /\ NeverAdvanced) => TimedOut
    /\ TimedOut =>
          /\ export.clock >= export.deadline
          /\ export.first_test < export.deadline => export.checks >= 1

\* C15: validation timeout.  Every invocation ends; one whose validation copy
\* is never saved past its baseline and stays present ends with the
\* ValidationError that names the timeout; that error is raised only when the
\* clock has reached the deadline (the clock reading at line 139 plus the
\* timeout); and at least one check of the modification time precedes it
\* whenever the first test of the loop found the clock before the deadline.
C15_TimeoutNotEarlier ==
    /\ [](C15_TimeoutSafety)
    /\ <>(export.pc = "exited")

C15_Witness ==
    /\ export.pc = "exited" /\ TimedOut /\ NeverAdvanced
    /\ export.first_test < export.deadline /\ export.checks >= 1
    /\ export.clock >= export.deadline

\* C16 (as stated): when the validation copy disappears at any moment of
\* PollForSignal, the invocation ends with ValidationError and exit code 4.
\* The code re-raises the FileNotFoundError of the re-read (and of the
\* baseline stat) unwrapped, and _run_command reports it as a UsageError.
C16_DisappearanceIsValidationError ==
    (export.pc = "exited" /\ export.gone_at # "none") =>
        /\ ExportRaised("ValidationError")
        /\ export.exit_code = ExitCodeOf("ValidationError")

LaunchFailed == export.details # NoDetails

LastLaunch == export.launches[Len(export.launches)]

\* C17: a failed editor launch is terminal and never retried.  The editor is
\* launched at most twice, first on the export and then on the validation
\* copy; when a launch exits non-zero the invocation has ended with a
\* ValidationError whose details name the application and the file of that
\* launch and carry a non-empty error text, the stripped error output of the
\* subprocess when it has any; and nothing that follows that launch has run:
\* no further launch, and after a failed launch of the export no temporary
\* directory, no copy and no injection, after a failed launch of the copy no
\* deadline and no check.
C17_FailedLaunchIsTerminal ==
    /\ Len(export.launches) <= 2
    /\ \A k \in 1..Len(export.launches) :
          /\ export.launches[k].file = (IF k = 1 THEN "out" ELSE "copy")
          /\ k < Len(export.launches) => export.launches[k].proc.returncode = 0
    /\ (export.launches # <<>> /\ LastLaunch.proc.returncode # 0) =>
          /\ ExportEnded /\ ExportRaised("ValidationError") /\ LaunchFailed
          /\ export.details.app = export.max_app
          /\ export.details.file = LastLaunch.file
          /\ export.details.stderr # <<>>
          /\ Strip(LastLaunch.proc.stderr) # <<>> =>
                export.details.stderr = Strip(LastLaunch.proc.stderr)
          /\ export.checks = 0 /\ export.first_test = NotRead
          /\ LastLaunch.file = "out" =>
                "tmp" \notin export.created /\ export.writes = <<"out">>
    /\ LaunchFailed => export.launches # <<>> /\ LastLaunch.proc.returncode # 0

C17_Witness ==
    /\ export.pc = "exited" /\ Len(export.launches) = 2
    /\ LastLaunch.proc.returncode # 0 /\ LastLaunch.proc.stderr = <<"e", "r", "r">>
    /\ export.details.stderr = <<"e", "r", "r">> /\ export.details.file = "copy"
    /\ export.exit_code = ExitCodeOf("ValidationError")

\* C18 (as stated): on another platform than the editor's, an invocation that
\* asks for validation (and gets as far as the validation) ends with
\* UsageError and exit code 2 whatever the editor path is, and launches
\* nothing and creates no copy.  The code looks for the editor before it looks
\* at the platform, and fails with ValidationError when it finds none.
C18_OtherPlatformFailsFast ==
    (export.pc = "exited" /\ export.validate /\ export.platform # "darwin"
       /\ export.writes # <<>> /\ export.resolved_timeout > 0) =>
        /\ ExportRaised("UsageError")
        /\ export.exit_code = ExitCodeOf("UsageError")
        /\ export.launches = <<>> /\ "copy" \notin export.created

----------------------------------------------------------------------------
(* Claims about resolve_max_app_path.                                      *)

\* The lengths of the prefixes of c, c included, that end in ".app".
BundleLengths(c) == {n \in 1..Len(c) : NameSuffix(c[n]) = ".app"}

\* The candidate itself when it ends in ".app" or has no ancestor that does,
\* else its nearest ancestor that ends in ".app".
NearestBundle(c) ==
    IF BundleLengths(c) = {} THEN c
    ELSE SubSeq(c, 1, CHOOSE n \in BundleLengths(c) :
                         \A k \in BundleLengths(c) : k <= n)

Qualifies(c, disk) ==
    /\ NearestBundle(c) # <<>>
    /\ NameSuffix(NearestBundle(c)[Len(NearestBundle(c))]) = ".app"
    /\ NearestBundle(c) \in disk

\* C19: resolve_max_app_path tries the configured path first and the default
\* second, each normalized to itself when it ends in ".app" and else to its
\* nearest ancestor that does; it returns the normalized form of the first
\* candidate whose normalized form ends in ".app" and exists (the configured
\* one when both qualify), and when neither qualifies it raises
\* ValidationError listing what it checked for both candidates, in order.
C19_FirstExistingBundle ==
    app.pc = "done" =>
        app.result =
          IF Qualifies(app.configured, app.disk)
          THEN Returned(NearestBundle(app.configured))
          ELSE IF Qualifies(DefaultMaxAppPath, app.disk)
          THEN Returned(NearestBundle(DefaultMaxAppPath))
          ELSE Raised("ValidationError", "Max.app not found",
                      <<NearestBundle(app.configured),
                        NearestBundle(DefaultMaxAppPath)>>)

C19_Witness ==
    /\ app.pc = "done" /\ app.configured = OptInnerApp \o <<"bin">>
    /\ app.disk = {DefaultMaxAppPath, OptMaxApp, OptInnerApp}
    /\ app.result = Returned(OptInnerApp)

----------------------------------------------------------------------------
(* Claims about the diagnostics of the pipeline.                           *)

\* The lines of `captured` that are not blank, each trimmed, in their order.
RECURSIVE TrimmedLines(_)
TrimmedLines(lines) ==
    IF lines = <<>> THEN <<>>
    ELSE IF Strip(Head(lines)) = <<>> THEN TrimmedLines(Tail(lines))
    ELSE <<Strip(Head(lines))>> \o TrimmedLines(Tail(lines))

\* The invocation ran in structured mode and ended on an exception that
\* passed through _run_command.
FailedStructured ==
    /\ json_output /\ pc = "done"
    /\ raised.cls # "none" /\ raised.at # "parse"

\* C20 (as stated): in structured mode, on every failure path of the pipeline
\* the lines the action wrote before it failed are, trimmed, non-empty and in
\* order, the diagnostics of the one error report.  The code attaches them to
\* a click exception too, but main reports that exception through a new
\* UsageError that carries none of them.
C20_DiagnosticsReachReport ==
    FailedStructured =>
        /\ Len(stdout) = 1 /\ ~stdout[1].ok
        /\ stdout[1].diagnostics = TrimmedLines(captured)

\* A warning that is a summary of captured diagnostic lines.
IsSummary(w) ==
    w # <<>> /\ w[Len(w)] = " internal diagnostic line(s) captured"

SummaryCount(ws) == Cardinality({k \in 1..Len(ws) : IsSummary(ws[k])})

SucceededStructured == json_output /\ pc = "done" /\ raised.cls = "none"

\* C21: in structured mode, after a successful action, the output is the one
\* success envelope; its diagnostics are the captured lines that are not
\* blank, trimmed and in order; and its warnings hold exactly one summary
\* entry, stating the number of those lines, when there is at least one, and
\* no summary entry when there is none.
C21_CapturedTextOnlyInEnvelope ==
    SucceededStructured =>
        /\ Len(stdout) = 1 /\ stdout[1].ok /\ stderr = <<>>
        /\ stdout[1].diagnostics = TrimmedLines(captured)
        /\ SummaryCount(stdout[1].warnings) =
              (IF TrimmedLines(captured) = <<>> THEN 0 ELSE 1)
        /\ TrimmedLines(captured) # <<>> =>
              \E k \in 1..Len(stdout[1].warnings) :
                 stdout[1].warnings[k] =
                    IntToStr(Len(TrimmedLines(captured)))
                      \o <<" internal diagnostic line(s) captured">>

C21_Witness ==
    /\ SucceededStructured /\ Len(captured) = 2
    /\ stdout[1].diagnostics = << <<"y">> >>
    /\ Len(stdout[1].warnings) = 2

----------------------------------------------------------------------------
(* Claims about main and the schema identifiers.                           *)

\* Every space and every hyphen of a name replaced by the separator.
Separated(name) ==
    [i \in 1..Len(name) |-> IF name[i] \in {" ", "-"} THEN "_" ELSE name[i]]

Identifier(name, kind) == <<"maxpylang.cli.">> \o name \o <<".", kind, ".v1">>

\* The report came from the help branch of main.
IsHelpReport == pc = "done" /\ WantsJsonHelp

NonOptions(args) == {i \in 1..Len(args) : ~StartsWith(args[i], Dash)}

KnownAt(args) == {i \in NonOptions(args) : args[i] \in KnownCommands}

\* The command token of an argument list: its first known command that is
\* not an option, followed for `config` by the next entry that is not an
\* option; without a known command its first entry that is not an option;
\* without any, "cli".
CommandToken(args) ==
    IF KnownAt(args) # {}
    THEN IF args[SetMin(KnownAt(args))] = TokConfig
            /\ \E j \in NonOptions(args) : j > SetMin(KnownAt(args))
         THEN TokConfig \o <<" ">>
                \o args[SetMin({j \in NonOptions(args) : j > SetMin(KnownAt(args))})]
         ELSE args[SetMin(KnownAt(args))]
    ELSE IF NonOptions(args) # {} THEN args[SetMin(NonOptions(args))]
    ELSE <<"cli">>

\* C24: in structured mode, when click rejects the arguments with a usage
\* error (a missing option, an unknown command), the output is exactly one
\* error envelope, under the command token of the arguments and the error
\* schema of that command, with one error descriptor whose exit code is 2, and
\* the process exits with 2.
C24_ParseFailureEnvelope ==
    (json_output /\ pc = "done" /\ raised.at = "parse"
       /\ raised.cls = "ClickUsageError") =>
        /\ Len(stdout) = 1 /\ ~stdout[1].ok
        /\ stdout[1].command = CommandToken(argv)
        /\ stdout[1].schema =
              Identifier(Separated(Strip(CommandToken(argv))), "error")
        /\ Len(stdout[1].errors) = 1
        /\ stdout[1].errors[1].exit_code = 2
        /\ exit_status = 2

C24_Witness ==
    /\ pc = "done" /\ raised.at = "parse" /\ ~WantsJsonHelp
    /\ argv = <<TokJson, TokUnknown, CmdNew>>
    /\ stdout[1].command = CmdNew /\ exit_status = 2

----------------------------------------------------------------------------
(* Claims about the commands that write a file.                            *)

\* The commands whose action ends in a write.
WritingCommands ==
    {"new", "place", "connect", "replace", "delete", "save", "export-amxd"}

\* Nothing on disk was written: no write was made and both files are as the
\* invocation found them.
NothingWritten ==
    /\ cmd.writes = <<>>
    /\ Range(cmd.engine) \cap {"save", "export"} = {}
    /\ cmd.disk.in \in InputFiles \cup {MissingFile}
    /\ cmd.disk.out \in OutputFiles

\* C23: in strict mode, once the health check of a command that writes a file
\* has found a warning, the command has failed with ValidationError, whose
\* exit code is 4, and nothing was saved or exported; without strict mode the
\* warnings never fail the command, and a command that succeeds reports them.
C23_StrictModeFailsBeforeWriting ==
    (cmd.name \in WritingCommands /\ cmd.checked) =>
        /\ (cmd.strict /\ cmd.warnings # <<>>) =>
               /\ cmd.pc = "failed"
               /\ cmd.error = "ValidationError"
               /\ ExitCodeOf(cmd.error) = 4
               /\ NothingWritten
        /\ ~cmd.strict =>
               /\ cmd.why # "strict mode failed"
               /\ cmd.pc = "done" => cmd.reported = cmd.warnings

C23_Witness ==
    /\ cmd.name = "export-amxd" /\ cmd.checked
    /\ cmd.strict /\ cmd.warnings # <<>>
    /\ cmd.pc = "failed" /\ cmd.why = "strict mode failed"
    /\ cmd.disk.out = PatchFile(OldPatch)

\* The commands that take their output path from resolve_output_path.
PathPolicyCommands == {"place", "connect", "replace", "delete", "save"}

\* The patch is the one loaded from the input file.
PatchAsLoaded == patch = [objs |-> cmd.disk.in.objs, lines |-> cmd.disk.in.lines]

\* C30: for place, connect, replace, delete and save, once the output path
\* was resolved: a path given with --out is the target; without --out the
\* target is the input file when the in-place setting is on; otherwise the
\* command has failed with UsageError, with the patch as loaded and nothing
\* written.  Only the target is ever written, and the input file is written
\* only with the in-place setting on or with --out naming it.
C30_OutputPathPolicy ==
    (cmd.name \in PathPolicyCommands /\ cmd.out_opt \in OutOptions) =>
        /\ cmd.out_opt = "other" => cmd.target = "out"
        /\ cmd.out_opt = "same" => cmd.target = "in"
        /\ (cmd.out_opt = "none" /\ cmd.in_place) => cmd.target = "in"
        /\ (cmd.out_opt = "none" /\ ~cmd.in_place) =>
               /\ cmd.pc = "failed" /\ cmd.error = "UsageError"
               /\ PatchAsLoaded
               /\ NothingWritten
        /\ Range(cmd.writes) \subseteq {cmd.target}
        /\ "in" \in Range(cmd.writes) =>
               cmd.in_place \/ cmd.out_opt = "same"

C30_Witness ==
    /\ cmd.name = "save" /\ cmd.out_opt = "none" /\ ~cmd.in_place
    /\ cmd.pc = "failed" /\ cmd.error = "UsageError"
    /\ cmd.disk.in = PatchFile(InputPatch)

----------------------------------------------------------------------------
(* Claims about the lines of the injected helper.                          *)

\* C25: after the injection, the line that ran from one helper box to the
\* next runs from the clone of the first to the clone of the second, under
\* the identifiers the clones were given, each end renamed once, and neither
\* end is the identifier of a box the patch had before.
C25_HelperLinesFollowClones ==
    remap.pc = "injected" =>
        /\ Len(remap.lines) = Len(HelperLines(remap.helper_boxes))
        /\ \A j \in 1..Len(remap.lines) :
              /\ remap.lines[j].source = remap.injected[j].id.text
              /\ remap.lines[j].destination = remap.injected[j + 1].id.text
              /\ remap.lines[j].source =
                    DictGet(remap.result.val, remap.helper_boxes[j].text)
              /\ remap.lines[j].destination =
                    DictGet(remap.result.val, remap.helper_boxes[j + 1].text)
              /\ remap.lines[j].source \notin ExistingIds
              /\ remap.lines[j].destination \notin ExistingIds

\* The second helper's own identifier is the fresh identifier of the first.
C25_Witness ==
    /\ remap.pc = "injected"
    /\ remap.existing = <<StrId(<<"h">>)>>
    /\ remap.helper_boxes = <<StrId(<<"h">>), StrId(ObjDash \o <<"1">>)>>
    /\ remap.lines = <<[source |-> ObjDash \o <<"1">>,
                        destination |-> ObjDash \o <<"2">>]>>

----------------------------------------------------------------------------
(* Claims about the poll loop and the order of the export.                 *)

Validated == export.parsed # "none"

ReportsValidated ==
    /\ ExportEnded /\ export.result.ok /\ export.result.val = <<TRUE>>

CopyLaunched ==
    \E k \in 1..Len(export.launches) : export.launches[k].file = "copy"

\* C26: the session is Validated only after a check of the loop read a
\* modification time greater than the baseline and the copy, as the editor
\* saved it, was parsed again.  When the copy is about to be opened in the
\* editor the tool has made all its writes (the export, the copy, the copy
\* with the helper), the baseline is the modification time the last of them
\* left, and the editor was not yet launched on the copy; once it was, the
\* tool writes nothing more.  export_amxd_file returns validated = true only
\* when validation was requested and the session was Validated.
C26_ValidatedOnlyOnWriteBack ==
    /\ Validated =>
          /\ export.current_mtime > export.start_mtime
          /\ export.checks >= 1
          /\ export.parsed = "saved"
    /\ export.pc = "open_copy" =>
          /\ export.writes = <<"out", "copy", "copy">>
          /\ export.start_mtime = export.mtime
          /\ ~CopyLaunched
    /\ CopyLaunched => export.writes = <<"out", "copy", "copy">>
    /\ ReportsValidated => export.validate /\ Validated

C26_Witness ==
    /\ export.pc = "exited" /\ ReportsValidated /\ Validated
    /\ export.start_mtime = 1 /\ export.current_mtime = 2
    /\ export.exit_code = 0

\* The outcomes of a session whose loop was entered.
EndedValidated == export.result.ok /\ Validated
EndedTimedOut == TimedOut /\ ~Validated
EndedFailed == ~export.result.ok /\ ~TimedOut /\ ~Validated

\* What holds of the poll loop in every state: the timeout is positive; each
\* sleep, check and re-read belongs to a pass whose test read the clock
\* before the deadline; the timeout error follows a test that read the clock
\* at or past the deadline; no more checks are made than the timeout has
\* sleep intervals; and a session that has ended after entering the loop
\* ended in exactly one of the three outcomes.
C27_LoopSafety ==
    /\ export.pc \in LoopPcs => export.resolved_timeout > 0
    /\ export.pc \in {"sleep", "stat", "compare", "reload"} =>
          export.last_test # NotRead /\ export.last_test < export.deadline
    /\ TimedOut => export.last_test >= export.deadline
    /\ export.checks <= export.resolved_timeout
    /\ (export.pc = "exited" /\ export.first_test # NotRead) =>
          \/ EndedValidated /\ ~EndedTimedOut /\ ~EndedFailed
          \/ ~EndedValidated /\ EndedTimedOut /\ ~EndedFailed
          \/ ~EndedValidated /\ ~EndedTimedOut /\ EndedFailed

\* C27: PollForSignal always terminates.  Whatever the editor does, a session
\* in the loop leaves it and the invocation ends, in exactly one of Validated,
\* the timeout error or another error, and the tool starts no sleep, check or
\* re-read after a test of the loop that read the clock at or past the
\* deadline.
C27_PollingTerminates ==
    /\ [](C27_LoopSafety)
    /\ (export.pc \in LoopPcs) ~> (export.pc = "exited")

C27_Witness ==
    /\ export.pc = "exited" /\ EndedFailed
    /\ export.first_test # NotRead /\ export.checks = 2
    /\ export.parsed = "none" /\ export.saved_at # NotRead

\* C28 (as stated): when the editor's save advances the modification time of
\* the copy past the baseline while the clock is before the deadline, and the
\* copy stays present and valid, the session ends Validated.  The loop makes
\* no check after the test that finds the deadline reached, so a save that
\* falls between the last check and that test is missed.
C28_WriteBackNeverMissed ==
    (export.pc = "exited" /\ export.saved_at # NotRead
       /\ export.saved_at < export.deadline
       /\ export.mtime > export.start_mtime
       /\ export.gone_at = "none"
       /\ export.saved_as = "saved") =>
        /\ ReportsValidated
        /\ ~TimedOut

\* The failures of the steps that follow the write of the export.
LaterFailures ==
    {"invalid validation timeout value",
     "timeout must be greater than 0 seconds",
     "Max.app not found",
     "export-amxd validation is currently supported on macOS only",
     "failed to launch Max for .amxd",
     "failed to launch Max for validation .maxpat",
     "timed out waiting for Max to write validation file",
     "validation file disappeared during Max validation"}

\* The steps that follow the write of the export.
LaterPcs ==
    {"timeout", "app", "platform", "open_export", "tmpdir", "clone",
     "prepare", "return"} \cup PollingPcs

\* C29: the write of the export precedes every later step, and a failure of
\* a later step ends the invocation with an error and leaves the export at
\* the output path: written once, holding the serialization of the patch.
C29_ExportKeptOnLaterFailure ==
    /\ export.pc \in LaterPcs =>
          export.writes # <<>> /\ export.writes[1] = "out"
    /\ (~export.result.ok /\ export.result.why \in LaterFailures) =>
          /\ ExportEnded
          /\ export.writes # <<>> /\ export.writes[1] = "out"
          /\ \A k \in 2..Len(export.writes) : export.writes[k] # "out"
          /\ export.out = "doc"
          /\ export.pc = "exited" => export.exit_code # 0

C29_Witness ==
    /\ export.pc = "exited" /\ ExportRaised("ValidationError")
    /\ export.result.why = "Max.app not found"
    /\ export.before = "old" /\ export.out = "doc"
    /\ export.exit_code = 4
====
